---- MODULE Spec2Model ----
(***************************************************************************)
(* Career Reality Checker: the rule-based Evaluator (engine/src/index.ts), *)
(* its static scenario table, and the POST /api/evaluate route handler.    *)
(*                                                                         *)
(* JavaScript numbers are modelled as exact rationals <<n, d>> (d > 0, in  *)
(* lowest terms); Math.round, Math.min and Math.max act on them.  Strings  *)
(* are TLA+ strings; toLowerCase and includes are computed character by    *)
(* character.                                                              *)
(***************************************************************************)
EXTENDS Integers, Sequences, FiniteSets, TLC

VARIABLES scenarios, now, body, pc, loc, resp, form

vars == <<scenarios, now, body, pc, loc, resp, form>>

-----------------------------------------------------------------------------
(* Bounds of the model *)

NumReq == 2
MaxClock == 1
MaxYears2 == 14
MaxSkillLen == 2

-----------------------------------------------------------------------------
(* Numbers *)

RECURSIVE Gcd(_, _)
Gcd(a, b) == IF b = 0 THEN a ELSE Gcd(b, a % b)

Abs(n) == IF n < 0 THEN 0 - n ELSE n

Rat(n, d) ==
  LET s == IF d < 0 THEN 0 - 1 ELSE 1
      g == Gcd(Abs(n), Abs(d))
  IN <<(s * n) \div g, (s * d) \div g>>

R(i) == <<i, 1>>

Add(x, y) == Rat(x[1] * y[2] + y[1] * x[2], x[2] * y[2])
Sub(x, y) == Rat(x[1] * y[2] - y[1] * x[2], x[2] * y[2])
Mul(x, y) == Rat(x[1] * y[1], x[2] * y[2])
Div(x, y) == Rat(x[1] * y[2], x[2] * y[1])

Lt(x, y) == x[1] * y[2] < y[1] * x[2]
Le(x, y) == x[1] * y[2] <= y[1] * x[2]
Gt(x, y) == Lt(y, x)
Ge(x, y) == Le(y, x)

MathMin(x, y) == IF Lt(y, x) THEN y ELSE x
MathMax(x, y) == IF Gt(y, x) THEN y ELSE x

\* Math.round: the nearest integer, a tie going to the larger one
MathRound(x) == R((2 * x[1] + x[2]) \div (2 * x[2]))

IsInteger(x) == x[2] = 1

-----------------------------------------------------------------------------
(* Strings *)

\* Upper-case letters and their lower-case forms
LowerCaseOf ==
  [ c \in { "A", "B", "C", "D", "E", "F", "G", "H", "I", "J", "K", "L", "M",
            "N", "O", "P", "Q", "R", "S", "T", "U", "V", "W", "X", "Y", "Z" } |->
      CASE c = "A" -> "a" [] c = "B" -> "b" [] c = "C" -> "c" [] c = "D" -> "d"
        [] c = "E" -> "e" [] c = "F" -> "f" [] c = "G" -> "g" [] c = "H" -> "h"
        [] c = "I" -> "i" [] c = "J" -> "j" [] c = "K" -> "k" [] c = "L" -> "l"
        [] c = "M" -> "m" [] c = "N" -> "n" [] c = "O" -> "o" [] c = "P" -> "p"
        [] c = "Q" -> "q" [] c = "R" -> "r" [] c = "S" -> "s" [] c = "T" -> "t"
        [] c = "U" -> "u" [] c = "V" -> "v" [] c = "W" -> "w" [] c = "X" -> "x"
        [] c = "Y" -> "y" [] c = "Z" -> "z" ]

LowerChar(c) == IF c \in DOMAIN LowerCaseOf THEN LowerCaseOf[c] ELSE c

RECURSIVE toLowerCase(_)
toLowerCase(s) ==
  IF Len(s) = 0 THEN ""
  ELSE LowerChar(SubSeq(s, 1, 1)) \o toLowerCase(SubSeq(s, 2, Len(s)))

includes(s, sub) ==
  \/ Len(sub) = 0
  \/ \E i \in 1..(Len(s) - Len(sub) + 1) : SubSeq(s, i, i + Len(sub) - 1) = sub

-----------------------------------------------------------------------------
(* The static scenario table (engine/src/scenarios) *)

ScenarioTable ==
  << [ id |-> "faang-sde",
       name |-> "FAANG Software Development Engineer",
       targetRole |-> "Software Development Engineer",
       targetIndustry |-> "Technology",
       minExperienceYears |-> 2,
       skillRequirements |->
         << [skillName |-> "Data Structures and Algorithms", minProficiency |-> 4,
             isCritical |-> TRUE, monthsToLearn |-> 6],
            [skillName |-> "System Design", minProficiency |-> 3,
             isCritical |-> TRUE, monthsToLearn |-> 4],
            [skillName |-> "At least one programming language (Java, Python, C++, etc.)",
             minProficiency |-> 4, isCritical |-> TRUE, monthsToLearn |-> 12],
            [skillName |-> "Problem Solving", minProficiency |-> 4,
             isCritical |-> TRUE, monthsToLearn |-> 6],
            [skillName |-> "Computer Science Fundamentals", minProficiency |-> 3,
             isCritical |-> FALSE, monthsToLearn |-> 12] >>,
       timelineRanges |-> [bestCaseMonths |-> 6, averageCaseMonths |-> 12,
                           worstCaseMonths |-> 24],
       typicalSalaryRange |-> [present |-> TRUE, min |-> 150000, max |-> 300000] ],
     [ id |-> "ml-engineer",
       name |-> "Machine Learning Engineer",
       targetRole |-> "Machine Learning Engineer",
       targetIndustry |-> "Technology",
       minExperienceYears |-> 1,
       skillRequirements |->
         << [skillName |-> "Machine Learning Fundamentals", minProficiency |-> 4,
             isCritical |-> TRUE, monthsToLearn |-> 12],
            [skillName |-> "Python", minProficiency |-> 4,
             isCritical |-> TRUE, monthsToLearn |-> 6],
            [skillName |-> "Deep Learning (TensorFlow/PyTorch)", minProficiency |-> 3,
             isCritical |-> TRUE, monthsToLearn |-> 6],
            [skillName |-> "Statistics and Mathematics", minProficiency |-> 3,
             isCritical |-> TRUE, monthsToLearn |-> 12],
            [skillName |-> "Software Engineering", minProficiency |-> 3,
             isCritical |-> TRUE, monthsToLearn |-> 12],
            [skillName |-> "MLOps / Model Deployment", minProficiency |-> 2,
             isCritical |-> FALSE, monthsToLearn |-> 4] >>,
       timelineRanges |-> [bestCaseMonths |-> 9, averageCaseMonths |-> 18,
                           worstCaseMonths |-> 36],
       typicalSalaryRange |-> [present |-> TRUE, min |-> 120000, max |-> 250000] ],
     [ id |-> "masters-research-path",
       name |-> "Masters Degree -> Research Path",
       targetRole |-> "Research Scientist / PhD Student / Research Engineer",
       targetIndustry |-> "Academia / Research",
       minExperienceYears |-> 0,
       skillRequirements |->
         << [skillName |-> "Research Methodology", minProficiency |-> 3,
             isCritical |-> TRUE, monthsToLearn |-> 12],
            [skillName |-> "Academic Writing", minProficiency |-> 3,
             isCritical |-> TRUE, monthsToLearn |-> 6],
            [skillName |-> "Domain-specific expertise (varies by field)",
             minProficiency |-> 4, isCritical |-> TRUE, monthsToLearn |-> 24],
            [skillName |-> "Statistical Analysis", minProficiency |-> 3,
             isCritical |-> FALSE, monthsToLearn |-> 6],
            [skillName |-> "Literature Review", minProficiency |-> 3,
             isCritical |-> FALSE, monthsToLearn |-> 4] >>,
       timelineRanges |-> [bestCaseMonths |-> 24, averageCaseMonths |-> 30,
                           worstCaseMonths |-> 48],
       typicalSalaryRange |-> [present |-> TRUE, min |-> 0, max |-> 150000] ] >>

-----------------------------------------------------------------------------
(* Evaluator: score calculators *)

Half == Rat(1, 2)

RECURSIVE SumProficiency(_)
SumProficiency(skills) ==
  IF Len(skills) = 0 THEN 0
  ELSE skills[1].proficiency + SumProficiency(Tail(skills))

\* Variant: every year beyond the required ones is worth ten points instead of five
calculateExperienceScoreGenerous(profile, goal) ==
  LET relevantYears == profile.experience.relevantYears
      totalYears == profile.experience.totalYears
      roleTitle == toLowerCase(goal.targetRole)
      requiredYears ==
        IF includes(roleTitle, "senior") \/ includes(roleTitle, "lead")
           \/ includes(roleTitle, "principal") THEN R(5)
        ELSE IF includes(roleTitle, "junior") \/ includes(roleTitle, "entry")
                \/ includes(roleTitle, "associate") THEN R(1)
        ELSE IF includes(roleTitle, "director") \/ includes(roleTitle, "manager")
                \/ includes(roleTitle, "head") THEN R(7)
        ELSE R(3)
  IN IF Ge(relevantYears, requiredYears)
     THEN MathMin(R(100), Add(R(80), MathMin(R(20), Mul(Sub(relevantYears, requiredYears), R(10)))))
     ELSE IF Ge(relevantYears, Mul(requiredYears, Half))
     THEN LET ratio == Div(relevantYears, requiredYears)
          IN MathRound(Add(R(40), Mul(Sub(ratio, Half), R(80))))
     ELSE IF Gt(relevantYears, R(0))
     THEN LET ratio == Div(relevantYears, Mul(requiredYears, Half))
          IN MathRound(Mul(ratio, R(40)))
     ELSE IF Gt(totalYears, R(0))
     THEN MathMin(R(20), Mul(totalYears, R(5)))
     ELSE R(0)

calculateExperienceScore(profile, goal) ==
  LET relevantYears == profile.experience.relevantYears
      totalYears == profile.experience.totalYears
      roleTitle == toLowerCase(goal.targetRole)
      requiredYears ==
        IF includes(roleTitle, "senior") \/ includes(roleTitle, "lead")
           \/ includes(roleTitle, "principal") THEN R(5)
        ELSE IF includes(roleTitle, "junior") \/ includes(roleTitle, "entry")
                \/ includes(roleTitle, "associate") THEN R(1)
        ELSE IF includes(roleTitle, "director") \/ includes(roleTitle, "manager")
                \/ includes(roleTitle, "head") THEN R(7)
        ELSE R(3)
  IN IF Ge(relevantYears, requiredYears)
     THEN MathMin(R(100), Add(R(80), MathMin(R(20), Mul(Sub(relevantYears, requiredYears), R(5)))))
     ELSE IF Ge(relevantYears, Mul(requiredYears, Half))
     THEN LET ratio == Div(relevantYears, requiredYears)
          IN MathRound(Add(R(40), Mul(Sub(ratio, Half), R(80))))
     ELSE IF Gt(relevantYears, R(0))
     THEN LET ratio == Div(relevantYears, Mul(requiredYears, Half))
          IN MathRound(Mul(ratio, R(40)))
     ELSE IF Gt(totalYears, R(0))
     THEN MathMin(R(20), Mul(totalYears, R(5)))
     ELSE R(0)

\* Variant: the sum of proficiency score and count bonus is not capped at 100
calculateSkillScoreUncapped(profile, goal) ==
  IF Len(profile.skills) = 0 THEN R(0)
  ELSE LET avgProficiency == Div(R(SumProficiency(profile.skills)), R(Len(profile.skills)))
           proficiencyScore ==
             IF Ge(avgProficiency, R(4)) THEN R(100)
             ELSE IF Ge(avgProficiency, R(3)) THEN R(80)
             ELSE IF Ge(avgProficiency, R(2)) THEN R(50)
             ELSE IF Ge(avgProficiency, R(1)) THEN R(25)
             ELSE R(0)
           skillCountBonus == MathMin(R(20), Mul(R(Len(profile.skills)), R(2)))
       IN Add(proficiencyScore, skillCountBonus)

calculateSkillScore(profile, goal) ==
  IF Len(profile.skills) = 0 THEN R(0)
  ELSE LET avgProficiency == Div(R(SumProficiency(profile.skills)), R(Len(profile.skills)))
           proficiencyScore ==
             IF Ge(avgProficiency, R(4)) THEN R(100)
             ELSE IF Ge(avgProficiency, R(3)) THEN R(80)
             ELSE IF Ge(avgProficiency, R(2)) THEN R(50)
             ELSE IF Ge(avgProficiency, R(1)) THEN R(25)
             ELSE R(0)
           skillCountBonus == MathMin(R(20), Mul(R(Len(profile.skills)), R(2)))
       IN MathMin(R(100), Add(proficiencyScore, skillCountBonus))

\* Variant: level 'none' has the base score of 'high_school'
calculateEducationScoreNoneAsHighSchool(profile, goal) ==
  LET education == profile.education
      baseScore ==
        CASE education.level = "doctorate" -> R(100)
          [] education.level = "masters" -> R(100)
          [] education.level = "bachelors" -> R(80)
          [] education.level = "associates" -> R(60)
          [] education.level = "high_school" -> R(40)
          [] education.level = "none" -> R(40)
          [] OTHER -> R(0)
      fieldLower == toLowerCase(education.field)
      industryLower == toLowerCase(goal.targetIndustry)
      fieldBonus ==
        IF education.field # "" /\ goal.targetIndustry # ""
        THEN IF /\ (includes(fieldLower, "computer") \/ includes(fieldLower, "software")
                    \/ includes(fieldLower, "tech"))
                /\ (includes(industryLower, "tech") \/ includes(industryLower, "software")
                    \/ includes(industryLower, "it"))
             THEN R(20)
             ELSE IF /\ (includes(fieldLower, "business") \/ includes(fieldLower, "management")
                         \/ includes(fieldLower, "finance"))
                     /\ (includes(industryLower, "business") \/ includes(industryLower, "finance")
                         \/ includes(industryLower, "consulting"))
             THEN R(20)
             ELSE IF includes(fieldLower, industryLower) \/ includes(industryLower, fieldLower)
             THEN R(15)
             ELSE R(0)
        ELSE R(0)
  IN MathMin(R(100), Add(baseScore, fieldBonus))

\* Variant: high school has a base score of 30
calculateEducationScoreLowHighSchool(profile, goal) ==
  LET education == profile.education
      baseScore ==
        CASE education.level = "doctorate" -> R(100)
          [] education.level = "masters" -> R(100)
          [] education.level = "bachelors" -> R(80)
          [] education.level = "associates" -> R(60)
          [] education.level = "high_school" -> R(30)
          [] education.level = "none" -> R(0)
          [] OTHER -> R(0)
      fieldLower == toLowerCase(education.field)
      industryLower == toLowerCase(goal.targetIndustry)
      fieldBonus ==
        IF education.field # "" /\ goal.targetIndustry # ""
        THEN IF /\ (includes(fieldLower, "computer") \/ includes(fieldLower, "software")
                    \/ includes(fieldLower, "tech"))
                /\ (includes(industryLower, "tech") \/ includes(industryLower, "software")
                    \/ includes(industryLower, "it"))
             THEN R(20)
             ELSE IF /\ (includes(fieldLower, "business") \/ includes(fieldLower, "management")
                         \/ includes(fieldLower, "finance"))
                     /\ (includes(industryLower, "business") \/ includes(industryLower, "finance")
                         \/ includes(industryLower, "consulting"))
             THEN R(20)
             ELSE IF includes(fieldLower, industryLower) \/ includes(industryLower, fieldLower)
             THEN R(15)
             ELSE R(0)
        ELSE R(0)
  IN MathMin(R(100), Add(baseScore, fieldBonus))

calculateEducationScore(profile, goal) ==
  LET education == profile.education
      baseScore ==
        CASE education.level = "doctorate" -> R(100)
          [] education.level = "masters" -> R(100)
          [] education.level = "bachelors" -> R(80)
          [] education.level = "associates" -> R(60)
          [] education.level = "high_school" -> R(40)
          [] education.level = "none" -> R(0)
          [] OTHER -> R(0)
      fieldLower == toLowerCase(education.field)
      industryLower == toLowerCase(goal.targetIndustry)
      fieldBonus ==
        IF education.field # "" /\ goal.targetIndustry # ""
        THEN IF /\ (includes(fieldLower, "computer") \/ includes(fieldLower, "software")
                    \/ includes(fieldLower, "tech"))
                /\ (includes(industryLower, "tech") \/ includes(industryLower, "software")
                    \/ includes(industryLower, "it"))
             THEN R(20)
             ELSE IF /\ (includes(fieldLower, "business") \/ includes(fieldLower, "management")
                         \/ includes(fieldLower, "finance"))
                     /\ (includes(industryLower, "business") \/ includes(industryLower, "finance")
                         \/ includes(industryLower, "consulting"))
             THEN R(20)
             ELSE IF includes(fieldLower, industryLower) \/ includes(industryLower, fieldLower)
             THEN R(15)
             ELSE R(0)
        ELSE R(0)
  IN MathMin(R(100), Add(baseScore, fieldBonus))

\* Variant: the management keywords are looked for before the entry-level ones
estimateExperienceGapManagerFirst(profile, goal) ==
  LET relevantYears == profile.experience.relevantYears
      roleTitle == toLowerCase(goal.targetRole)
      requiredYears ==
        IF includes(roleTitle, "senior") \/ includes(roleTitle, "lead")
           \/ includes(roleTitle, "principal") THEN R(5)
        ELSE IF includes(roleTitle, "director") \/ includes(roleTitle, "manager")
                \/ includes(roleTitle, "head") THEN R(7)
        ELSE IF includes(roleTitle, "junior") \/ includes(roleTitle, "entry")
                \/ includes(roleTitle, "associate") THEN R(1)
        ELSE R(3)
      gap == Sub(requiredYears, relevantYears)
  IN MathMax(R(0), gap)

estimateExperienceGap(profile, goal) ==
  LET relevantYears == profile.experience.relevantYears
      roleTitle == toLowerCase(goal.targetRole)
      requiredYears ==
        IF includes(roleTitle, "senior") \/ includes(roleTitle, "lead")
           \/ includes(roleTitle, "principal") THEN R(5)
        ELSE IF includes(roleTitle, "junior") \/ includes(roleTitle, "entry")
                \/ includes(roleTitle, "associate") THEN R(1)
        ELSE IF includes(roleTitle, "director") \/ includes(roleTitle, "manager")
                \/ includes(roleTitle, "head") THEN R(7)
        ELSE R(3)
      gap == Sub(requiredYears, relevantYears)
  IN MathMax(R(0), gap)

\* Skills of the profile below proficiency 3, in profile order
RECURSIVE LowProficiencyGaps(_)
LowProficiencyGaps(skills) ==
  IF Len(skills) = 0 THEN << >>
  ELSE LET skill == skills[1]
       IN (IF skill.proficiency < 3
           THEN << [skillName |-> skill.name,
                    currentProficiency |-> skill.proficiency,
                    requiredProficiency |-> 3,
                    priority |-> IF skill.proficiency = 0 THEN 1 ELSE 2,
                    estimatedTimeToAcquireMonths |-> (3 - skill.proficiency) * 2] >>
           ELSE << >>)
          \o LowProficiencyGaps(Tail(skills))

\* Variant: the synthesized gaps follow the gaps of the profile skills
identifySkillGapsSynthesizedLast(profile, goal) ==
  LET neededSkills == 3 - Len(profile.skills)
      synthesized ==
        IF Len(profile.skills) < 3
        THEN [i \in 1..neededSkills |->
               [skillName |-> "Required skill " \o ToString(i) \o " for " \o goal.targetRole,
                currentProficiency |-> 0,
                requiredProficiency |-> 3,
                priority |-> 1,
                estimatedTimeToAcquireMonths |-> 6]]
        ELSE << >>
  IN LowProficiencyGaps(profile.skills) \o synthesized

identifySkillGaps(profile, goal) ==
  LET neededSkills == 3 - Len(profile.skills)
      synthesized ==
        IF Len(profile.skills) < 3
        THEN [i \in 1..neededSkills |->
               [skillName |-> "Required skill " \o ToString(i) \o " for " \o goal.targetRole,
                currentProficiency |-> 0,
                requiredProficiency |-> 3,
                priority |-> 1,
                estimatedTimeToAcquireMonths |-> 6]]
        ELSE << >>
  IN synthesized \o LowProficiencyGaps(profile.skills)

\* gap.estimatedTimeToAcquireMonths || 3, summed over the gaps
RECURSIVE TotalSkillMonths(_)
TotalSkillMonths(gaps) ==
  IF Len(gaps) = 0 THEN 0
  ELSE (IF gaps[1].estimatedTimeToAcquireMonths = 0 THEN 3
        ELSE gaps[1].estimatedTimeToAcquireMonths)
       + TotalSkillMonths(Tail(gaps))

\* Variant: in the lowest branch a half is rounded down
calculateTimelineScoreHalfDown(profile, goal) ==
  LET targetMonths == R(goal.timeline.targetMonths)
      experienceGap == estimateExperienceGap(profile, goal)
      skillGaps == identifySkillGaps(profile, goal)
      totalSkillMonths == TotalSkillMonths(skillGaps)
      isCareerChange == Lt(profile.experience.relevantYears, R(1))
      summed == Add(Add(Mul(experienceGap, R(12)), R(totalSkillMonths)),
                    IF isCareerChange THEN R(6) ELSE R(0))
      minimumRealisticMonths == IF Lt(summed, R(2)) THEN R(2) ELSE summed
      ratio == Div(targetMonths, minimumRealisticMonths)
  IN IF Ge(targetMonths, Mul(minimumRealisticMonths, Rat(3, 2))) THEN R(100)
     ELSE IF Ge(targetMonths, minimumRealisticMonths)
     THEN MathRound(Add(R(70), Mul(Sub(ratio, R(1)), R(20))))
     ELSE IF Ge(targetMonths, Mul(minimumRealisticMonths, Rat(7, 10)))
     THEN MathRound(Add(R(40), Mul(Sub(ratio, Rat(7, 10)), R(100))))
     ELSE MathRound(Sub(Mul(ratio, R(57)), Rat(1, 100)))

\* Variant: the lowest branch maps the ratio with 56 instead of 57
calculateTimelineScoreSlope56(profile, goal) ==
  LET targetMonths == R(goal.timeline.targetMonths)
      experienceGap == estimateExperienceGap(profile, goal)
      skillGaps == identifySkillGaps(profile, goal)
      totalSkillMonths == TotalSkillMonths(skillGaps)
      isCareerChange == Lt(profile.experience.relevantYears, R(1))
      summed == Add(Add(Mul(experienceGap, R(12)), R(totalSkillMonths)),
                    IF isCareerChange THEN R(6) ELSE R(0))
      minimumRealisticMonths == IF Lt(summed, R(2)) THEN R(2) ELSE summed
      ratio == Div(targetMonths, minimumRealisticMonths)
  IN IF Ge(targetMonths, Mul(minimumRealisticMonths, Rat(3, 2))) THEN R(100)
     ELSE IF Ge(targetMonths, minimumRealisticMonths)
     THEN MathRound(Add(R(70), Mul(Sub(ratio, R(1)), R(20))))
     ELSE IF Ge(targetMonths, Mul(minimumRealisticMonths, Rat(7, 10)))
     THEN MathRound(Add(R(40), Mul(Sub(ratio, Rat(7, 10)), R(100))))
     ELSE MathRound(Mul(ratio, R(56)))

calculateTimelineScore(profile, goal) ==
  LET targetMonths == R(goal.timeline.targetMonths)
      experienceGap == estimateExperienceGap(profile, goal)
      skillGaps == identifySkillGaps(profile, goal)
      totalSkillMonths == TotalSkillMonths(skillGaps)
      isCareerChange == Lt(profile.experience.relevantYears, R(1))
      summed == Add(Add(Mul(experienceGap, R(12)), R(totalSkillMonths)),
                    IF isCareerChange THEN R(6) ELSE R(0))
      minimumRealisticMonths == IF Lt(summed, R(2)) THEN R(2) ELSE summed
      ratio == Div(targetMonths, minimumRealisticMonths)
  IN IF Ge(targetMonths, Mul(minimumRealisticMonths, Rat(3, 2))) THEN R(100)
     ELSE IF Ge(targetMonths, minimumRealisticMonths)
     THEN MathRound(Add(R(70), Mul(Sub(ratio, R(1)), R(20))))
     ELSE IF Ge(targetMonths, Mul(minimumRealisticMonths, Rat(7, 10)))
     THEN MathRound(Add(R(40), Mul(Sub(ratio, Rat(7, 10)), R(100))))
     ELSE MathRound(Mul(ratio, R(57)))

\* Variant: the weighted sum is rounded half down instead of half up
calculateOverallScoreTruncated(experienceScore, skillScore, educationScore, timelineScore) ==
  MathRound(Sub(Add(Add(Add(Mul(experienceScore, Rat(3, 10)), Mul(skillScore, Rat(3, 10))),
                    Mul(educationScore, Rat(2, 10))),
                Mul(timelineScore, Rat(2, 10))), Half))

calculateOverallScore(experienceScore, skillScore, educationScore, timelineScore) ==
  MathRound(Add(Add(Add(Mul(experienceScore, Rat(3, 10)), Mul(skillScore, Rat(3, 10))),
                    Mul(educationScore, Rat(2, 10))),
                Mul(timelineScore, Rat(2, 10))))

-----------------------------------------------------------------------------
(* Evaluator: probability bands *)

\* The value an absent optional property reads as
Undefined == "<undefined>"

\* push(item) when cond holds
When(cond, items) == IF cond THEN items ELSE << >>

RECURSIVE SomePriorityOne(_)
SomePriorityOne(gaps) ==
  IF Len(gaps) = 0 THEN FALSE
  ELSE gaps[1].priority = 1 \/ SomePriorityOne(Tail(gaps))

\* Variant: the worst band of a score below 50 is as likely as the average band
calculateLikelihoodPessimistic(overallScore, band) ==
  IF band = "average" THEN R(50)
  ELSE IF band = "best"
  THEN (IF Ge(overallScore, R(80)) THEN R(30)
        ELSE IF Ge(overallScore, R(50)) THEN R(20)
        ELSE R(10))
  ELSE (IF Lt(overallScore, R(50)) THEN R(50)
        ELSE IF Lt(overallScore, R(80)) THEN R(30)
        ELSE R(20))

calculateLikelihood(overallScore, band) ==
  IF band = "average" THEN R(50)
  ELSE IF band = "best"
  THEN (IF Ge(overallScore, R(80)) THEN R(30)
        ELSE IF Ge(overallScore, R(50)) THEN R(20)
        ELSE R(10))
  ELSE (IF Lt(overallScore, R(50)) THEN R(40)
        ELSE IF Lt(overallScore, R(80)) THEN R(30)
        ELSE R(20))

\* Variant: the rounded hours are not capped at 8
calculateRequiredHoursUncapped(profile, goal, band, experienceScore, skillScore) ==
  LET skillGaps == identifySkillGaps(profile, goal)
      withGaps == IF Len(skillGaps) > 0
                  THEN Add(R(2), Mul(R(Len(skillGaps)), Half))
                  ELSE R(2)
      baseHours == IF Lt(experienceScore, R(50)) THEN Add(withGaps, R(1)) ELSE withGaps
      multiplier == IF band = "best" THEN Rat(8, 10)
                    ELSE IF band = "worst" THEN Rat(13, 10)
                    ELSE R(1)
      totalHours == Mul(baseHours, multiplier)
  IN Div(MathRound(Mul(totalHours, R(10))), R(10))

calculateRequiredHours(profile, goal, band, experienceScore, skillScore) ==
  LET skillGaps == identifySkillGaps(profile, goal)
      withGaps == IF Len(skillGaps) > 0
                  THEN Add(R(2), Mul(R(Len(skillGaps)), Half))
                  ELSE R(2)
      baseHours == IF Lt(experienceScore, R(50)) THEN Add(withGaps, R(1)) ELSE withGaps
      multiplier == IF band = "best" THEN Rat(8, 10)
                    ELSE IF band = "worst" THEN Rat(13, 10)
                    ELSE R(1)
      totalHours == Mul(baseHours, multiplier)
  IN MathMin(R(8), Div(MathRound(Mul(totalHours, R(10))), R(10)))

calculateSacrifices(profile, goal, band, requiredHours) ==
  LET isEmployed == profile.employmentStatus = "employed"
      skillGaps == identifySkillGaps(profile, goal)
      hasSignificantGaps == Len(skillGaps) > 2 \/ SomePriorityOne(skillGaps)
      timelineTight == goal.timeline.targetMonths < 12
      targetLocation == IF goal.requirements.present
                        THEN goal.requirements.targetLocation ELSE Undefined
      locationIsFlexible == profile.location.present /\ profile.location.isFlexible
      roleLower == toLowerCase(goal.targetRole)
  IN [ reduceLeisureTime |-> Gt(requiredHours, R(3)),
       reduceCurrentJobCommitment |-> isEmployed /\ Gt(requiredHours, R(4)),
       financialInvestment |-> \/ hasSignificantGaps
                               \/ profile.education.level = "high_school"
                               \/ profile.education.level = "none",
       locationFlexibility |-> targetLocation # Undefined /\ ~locationIsFlexible,
       acceptLowerSalary |-> \/ Lt(profile.experience.relevantYears, R(1))
                             \/ includes(roleLower, "junior")
                             \/ includes(roleLower, "entry"),
       workNonStandardHours |-> timelineTight /\ Gt(requiredHours, R(4)),
       delayOtherGoals |-> Gt(requiredHours, R(5)) \/ hasSignificantGaps ]

getContributingFactors(overallScore, experienceScore, skillScore, educationScore, band) ==
  IF band = "best"
  THEN When(Ge(overallScore, R(80)), <<"Strong alignment between current profile and target role">>)
       \o When(Ge(experienceScore, R(80)), <<"Sufficient relevant experience">>)
       \o When(Ge(skillScore, R(80)), <<"Strong skill match">>)
       \o When(Ge(educationScore, R(80)), <<"Education requirements met">>)
       \o <<"High motivation and consistent effort",
            "Favorable market conditions and opportunities">>
  ELSE IF band = "average"
  THEN <<"Moderate alignment with target role">>
       \o When(Lt(experienceScore, R(70)), <<"Some experience gaps to address">>)
       \o When(Lt(skillScore, R(70)), <<"Some skill development needed">>)
       \o <<"Standard progress with typical challenges">>
  ELSE When(Lt(overallScore, R(50)), <<"Significant gaps between current profile and target role">>)
       \o When(Lt(experienceScore, R(50)), <<"Insufficient relevant experience">>)
       \o When(Lt(skillScore, R(50)), <<"Major skill gaps">>)
       \o When(Lt(educationScore, R(50)), <<"Education requirements not met">>)
       \o <<"Potential market challenges or competition",
            "Unrealistic timeline expectations">>

RECURSIVE LearnActions(_)
LearnActions(gaps) ==
  IF Len(gaps) = 0 THEN << >>
  ELSE When(gaps[1].priority = 1,
            <<"Learn " \o gaps[1].skillName \o " to proficiency level "
              \o ToString(gaps[1].requiredProficiency)>>)
       \o LearnActions(Tail(gaps))

getRequiredActions(profile, goal, experienceScore, skillScore, band) ==
  When(Lt(skillScore, R(80)), LearnActions(identifySkillGaps(profile, goal)))
  \o When(Lt(experienceScore, R(80)),
          <<"Gain relevant experience through projects, volunteering, or side work">>)
  \o <<"Build professional network in target industry",
       "Attend industry events and meetups">>
  \o When(band = "best" \/ band = "average",
          <<"Apply to relevant positions consistently",
            "Prepare for technical and behavioral interviews">>)
  \o <<"Build portfolio or update resume to highlight relevant experience">>
  \o When(/\ (profile.education.level = "high_school" \/ profile.education.level = "none")
          /\ band = "worst",
          <<"Consider additional education or certifications">>)

\* Variant: the best and worst multipliers of the base months are exchanged
calculateProbabilityBandsSwapped(profile, goal, experienceScore, skillScore, educationScore, timelineScore, overallScore) ==
  LET experienceGap == estimateExperienceGap(profile, goal)
      skillGaps == identifySkillGaps(profile, goal)
      totalSkillMonths == TotalSkillMonths(skillGaps)
      isCareerChange == Lt(profile.experience.relevantYears, R(1))
      baseMonths == MathMax(R(2), Add(Add(Mul(experienceGap, R(12)), R(totalSkillMonths)),
                                      IF isCareerChange THEN R(6) ELSE R(0)))
      bestCaseMonths == MathMax(R(1), MathRound(Mul(baseMonths, Rat(15, 10))))
      bestCaseHours == calculateRequiredHours(profile, goal, "best", experienceScore, skillScore)
      averageCaseMonths == MathMax(R(2), MathRound(baseMonths))
      averageCaseHours == calculateRequiredHours(profile, goal, "average", experienceScore, skillScore)
      worstCaseMonths == MathMax(R(3), MathRound(Mul(baseMonths, Rat(8, 10))))
      worstCaseHours == calculateRequiredHours(profile, goal, "worst", experienceScore, skillScore)
      Band(band, months, hours) ==
        [ band |-> band,
          likelihood |-> calculateLikelihood(overallScore, band),
          estimatedTimelineMonths |-> months,
          requiredDailyHours |-> hours,
          sacrifices |-> calculateSacrifices(profile, goal, band, hours),
          contributingFactors |->
            getContributingFactors(overallScore, experienceScore, skillScore, educationScore, band),
          requiredActions |-> getRequiredActions(profile, goal, experienceScore, skillScore, band) ]
  IN [ best |-> Band("best", bestCaseMonths, bestCaseHours),
       average |-> Band("average", averageCaseMonths, averageCaseHours),
       worst |-> Band("worst", worstCaseMonths, worstCaseHours) ]

\* Variant: the base timeline of the bands leaves out the career-change penalty
calculateProbabilityBandsNoPenalty(profile, goal, experienceScore, skillScore, educationScore, timelineScore, overallScore) ==
  LET experienceGap == estimateExperienceGap(profile, goal)
      skillGaps == identifySkillGaps(profile, goal)
      totalSkillMonths == TotalSkillMonths(skillGaps)
      isCareerChange == Lt(profile.experience.relevantYears, R(1))
      baseMonths == MathMax(R(2), Add(Add(Mul(experienceGap, R(12)), R(totalSkillMonths)),
                                      R(0)))
      bestCaseMonths == MathMax(R(1), MathRound(Mul(baseMonths, Rat(8, 10))))
      bestCaseHours == calculateRequiredHours(profile, goal, "best", experienceScore, skillScore)
      averageCaseMonths == MathMax(R(2), MathRound(baseMonths))
      averageCaseHours == calculateRequiredHours(profile, goal, "average", experienceScore, skillScore)
      worstCaseMonths == MathMax(R(3), MathRound(Mul(baseMonths, Rat(15, 10))))
      worstCaseHours == calculateRequiredHours(profile, goal, "worst", experienceScore, skillScore)
      Band(band, months, hours) ==
        [ band |-> band,
          likelihood |-> calculateLikelihood(overallScore, band),
          estimatedTimelineMonths |-> months,
          requiredDailyHours |-> hours,
          sacrifices |-> calculateSacrifices(profile, goal, band, hours),
          contributingFactors |->
            getContributingFactors(overallScore, experienceScore, skillScore, educationScore, band),
          requiredActions |-> getRequiredActions(profile, goal, experienceScore, skillScore, band) ]
  IN [ best |-> Band("best", bestCaseMonths, bestCaseHours),
       average |-> Band("average", averageCaseMonths, averageCaseHours),
       worst |-> Band("worst", worstCaseMonths, worstCaseHours) ]

\* Variant: every band's sacrifices are taken from the hours of the average band
calculateProbabilityBandsSharedSacrifices(profile, goal, experienceScore, skillScore, educationScore, timelineScore, overallScore) ==
  LET experienceGap == estimateExperienceGap(profile, goal)
      skillGaps == identifySkillGaps(profile, goal)
      totalSkillMonths == TotalSkillMonths(skillGaps)
      isCareerChange == Lt(profile.experience.relevantYears, R(1))
      baseMonths == MathMax(R(2), Add(Add(Mul(experienceGap, R(12)), R(totalSkillMonths)),
                                      IF isCareerChange THEN R(6) ELSE R(0)))
      bestCaseMonths == MathMax(R(1), MathRound(Mul(baseMonths, Rat(8, 10))))
      bestCaseHours == calculateRequiredHours(profile, goal, "best", experienceScore, skillScore)
      averageCaseMonths == MathMax(R(2), MathRound(baseMonths))
      averageCaseHours == calculateRequiredHours(profile, goal, "average", experienceScore, skillScore)
      worstCaseMonths == MathMax(R(3), MathRound(Mul(baseMonths, Rat(15, 10))))
      worstCaseHours == calculateRequiredHours(profile, goal, "worst", experienceScore, skillScore)
      Band(band, months, hours) ==
        [ band |-> band,
          likelihood |-> calculateLikelihood(overallScore, band),
          estimatedTimelineMonths |-> months,
          requiredDailyHours |-> hours,
          sacrifices |-> calculateSacrifices(profile, goal, band, averageCaseHours),
          contributingFactors |->
            getContributingFactors(overallScore, experienceScore, skillScore, educationScore, band),
          requiredActions |-> getRequiredActions(profile, goal, experienceScore, skillScore, band) ]
  IN [ best |-> Band("best", bestCaseMonths, bestCaseHours),
       average |-> Band("average", averageCaseMonths, averageCaseHours),
       worst |-> Band("worst", worstCaseMonths, worstCaseHours) ]

calculateProbabilityBands(profile, goal, experienceScore, skillScore, educationScore, timelineScore, overallScore) ==
  LET experienceGap == estimateExperienceGap(profile, goal)
      skillGaps == identifySkillGaps(profile, goal)
      totalSkillMonths == TotalSkillMonths(skillGaps)
      isCareerChange == Lt(profile.experience.relevantYears, R(1))
      baseMonths == MathMax(R(2), Add(Add(Mul(experienceGap, R(12)), R(totalSkillMonths)),
                                      IF isCareerChange THEN R(6) ELSE R(0)))
      bestCaseMonths == MathMax(R(1), MathRound(Mul(baseMonths, Rat(8, 10))))
      bestCaseHours == calculateRequiredHours(profile, goal, "best", experienceScore, skillScore)
      averageCaseMonths == MathMax(R(2), MathRound(baseMonths))
      averageCaseHours == calculateRequiredHours(profile, goal, "average", experienceScore, skillScore)
      worstCaseMonths == MathMax(R(3), MathRound(Mul(baseMonths, Rat(15, 10))))
      worstCaseHours == calculateRequiredHours(profile, goal, "worst", experienceScore, skillScore)
      Band(band, months, hours) ==
        [ band |-> band,
          likelihood |-> calculateLikelihood(overallScore, band),
          estimatedTimelineMonths |-> months,
          requiredDailyHours |-> hours,
          sacrifices |-> calculateSacrifices(profile, goal, band, hours),
          contributingFactors |->
            getContributingFactors(overallScore, experienceScore, skillScore, educationScore, band),
          requiredActions |-> getRequiredActions(profile, goal, experienceScore, skillScore, band) ]
  IN [ best |-> Band("best", bestCaseMonths, bestCaseHours),
       average |-> Band("average", averageCaseMonths, averageCaseHours),
       worst |-> Band("worst", worstCaseMonths, worstCaseHours) ]

-----------------------------------------------------------------------------
(* Evaluator: warnings *)

\* Number to string, as template literals print it (integers and tenths)
NumStr(x) ==
  IF x[2] = 1 THEN ToString(x[1])
  ELSE IF 10 % x[2] = 0
  THEN LET tenths == x[1] * (10 \div x[2])
       IN ToString(tenths \div 10) \o "." \o ToString(tenths % 10)
  ELSE ToString(x[1]) \o "/" \o ToString(x[2])

\* Number.prototype.toLocaleString for a non-negative integer: groups of three digits
RECURSIVE toLocaleString(_)
toLocaleString(n) ==
  IF n < 1000 THEN ToString(n)
  ELSE LET rest == n % 1000
           padded == IF rest < 10 THEN "00" \o ToString(rest)
                     ELSE IF rest < 100 THEN "0" \o ToString(rest)
                     ELSE ToString(rest)
       IN toLocaleString(n \div 1000) \o "," \o padded

RECURSIVE join(_, _)
join(strings, sep) ==
  IF Len(strings) = 0 THEN ""
  ELSE IF Len(strings) = 1 THEN strings[1]
  ELSE strings[1] \o sep \o join(Tail(strings), sep)

\* Array.prototype.find over a table: the index of the first entry satisfying P, 0 if none
RECURSIVE FindFrom(_, _, _)
FindFrom(table, P(_), i) ==
  IF i > Len(table) THEN 0
  ELSE IF P(table[i]) THEN i
  ELSE FindFrom(table, P, i + 1)

FindIndex(table, P(_)) == FindFrom(table, P, 1)

\* Array.prototype.map
RECURSIVE MapFrom(_, _, _)
MapFrom(items, F(_), i) ==
  IF i > Len(items) THEN << >>
  ELSE <<F(items[i])>> \o MapFrom(items, F, i + 1)

Map(items, F(_)) == MapFrom(items, F, 1)

\* Variant: severity 3 only from twice the available hours
checkTimeAvailabilityWarningLenient(profile, goal, probabilityBands) ==
  LET requiredHours == probabilityBands.average.requiredDailyHours
      isEmployed == profile.employmentStatus = "employed"
      availableHours == IF isEmployed THEN R(3)
                        ELSE IF profile.employmentStatus = "unemployed" THEN R(7)
                        ELSE IF profile.employmentStatus = "student" THEN R(4)
                        ELSE Rat(35, 10)
      hoursOver == Div(MathRound(Mul(Sub(requiredHours, availableHours), R(10))), R(10))
      message ==
        IF isEmployed /\ Gt(requiredHours, R(5))
        THEN "You need " \o NumStr(requiredHours) \o " hours per day, but as a full-time employee, you likely only have "
             \o NumStr(availableHours) \o " hours available. This is " \o NumStr(hoursOver)
             \o " hours more than realistic. You may need to reduce your current job commitment or extend your timeline."
        ELSE IF Gt(requiredHours, R(8))
        THEN "You need " \o NumStr(requiredHours) \o " hours per day, which exceeds a sustainable 8-hour workday. This level of commitment is difficult to maintain long-term and may lead to burnout. Consider extending your timeline to reduce daily requirements."
        ELSE "You need " \o NumStr(requiredHours) \o " hours per day, but based on your current situation ("
             \o profile.employmentStatus \o "), you likely have approximately " \o NumStr(availableHours)
             \o " hours available. You're " \o NumStr(hoursOver)
             \o " hours short per day, which could significantly impact your progress."
      severity ==
        IF isEmployed /\ Gt(requiredHours, R(5)) THEN 3
        ELSE IF Gt(requiredHours, R(8)) THEN 3
        ELSE IF Gt(requiredHours, Mul(availableHours, R(2))) THEN 3 ELSE 2
  IN When(Gt(requiredHours, Mul(availableHours, Rat(12, 10))),
          << [ flag |-> "resource_constraint",
               message |-> message,
               severity |-> severity,
               context |-> [ requiredHours |-> requiredHours,
                             availableHours |-> availableHours,
                             employmentStatus |-> profile.employmentStatus,
                             hoursShortfall |-> hoursOver ],
               suggestedActions |->
                 << IF isEmployed
                    THEN "Consider reducing work hours or taking a sabbatical if financially feasible"
                    ELSE "Review your daily schedule to identify time blocks for career development",
                    "Break down learning into smaller, more manageable daily chunks",
                    "Consider extending your timeline to reduce daily time pressure",
                    "Use time-blocking techniques to maximize productivity during available hours" >> ] >>)

checkTimeAvailabilityWarning(profile, goal, probabilityBands) ==
  LET requiredHours == probabilityBands.average.requiredDailyHours
      isEmployed == profile.employmentStatus = "employed"
      availableHours == IF isEmployed THEN R(3)
                        ELSE IF profile.employmentStatus = "unemployed" THEN R(7)
                        ELSE IF profile.employmentStatus = "student" THEN R(4)
                        ELSE Rat(35, 10)
      hoursOver == Div(MathRound(Mul(Sub(requiredHours, availableHours), R(10))), R(10))
      message ==
        IF isEmployed /\ Gt(requiredHours, R(5))
        THEN "You need " \o NumStr(requiredHours) \o " hours per day, but as a full-time employee, you likely only have "
             \o NumStr(availableHours) \o " hours available. This is " \o NumStr(hoursOver)
             \o " hours more than realistic. You may need to reduce your current job commitment or extend your timeline."
        ELSE IF Gt(requiredHours, R(8))
        THEN "You need " \o NumStr(requiredHours) \o " hours per day, which exceeds a sustainable 8-hour workday. This level of commitment is difficult to maintain long-term and may lead to burnout. Consider extending your timeline to reduce daily requirements."
        ELSE "You need " \o NumStr(requiredHours) \o " hours per day, but based on your current situation ("
             \o profile.employmentStatus \o "), you likely have approximately " \o NumStr(availableHours)
             \o " hours available. You're " \o NumStr(hoursOver)
             \o " hours short per day, which could significantly impact your progress."
      severity ==
        IF isEmployed /\ Gt(requiredHours, R(5)) THEN 3
        ELSE IF Gt(requiredHours, R(8)) THEN 3
        ELSE IF Gt(requiredHours, Mul(availableHours, Rat(15, 10))) THEN 3 ELSE 2
  IN When(Gt(requiredHours, Mul(availableHours, Rat(12, 10))),
          << [ flag |-> "resource_constraint",
               message |-> message,
               severity |-> severity,
               context |-> [ requiredHours |-> requiredHours,
                             availableHours |-> availableHours,
                             employmentStatus |-> profile.employmentStatus,
                             hoursShortfall |-> hoursOver ],
               suggestedActions |->
                 << IF isEmployed
                    THEN "Consider reducing work hours or taking a sabbatical if financially feasible"
                    ELSE "Review your daily schedule to identify time blocks for career development",
                    "Break down learning into smaller, more manageable daily chunks",
                    "Consider extending your timeline to reduce daily time pressure",
                    "Use time-blocking techniques to maximize productivity during available hours" >> ] >>)

\* Variant: the percentage is taken of the user's timeline instead of the average
checkExpectationVsAveragesWarningOverTarget(table, profile, goal, probabilityBands) ==
  LET roleLower == toLowerCase(goal.targetRole)
      industryLower == toLowerCase(goal.targetIndustry)
      Matches(scenario) ==
        \/ includes(toLowerCase(scenario.targetRole), roleLower)
        \/ includes(roleLower, toLowerCase(scenario.targetRole))
        \/ /\ toLowerCase(scenario.targetIndustry) = industryLower
           /\ Le(R(scenario.minExperienceYears), Add(profile.experience.relevantYears, R(2)))
      found == FindIndex(table, Matches)
      matchingScenario == table[found]
      userTimeline == R(goal.timeline.targetMonths)
      averageTimeline == R(matchingScenario.timelineRanges.averageCaseMonths)
      monthsShort == Div(MathRound(Mul(Sub(averageTimeline, userTimeline), R(10))), R(10))
      percentageFaster ==
        MathRound(Mul(Div(Sub(averageTimeline, userTimeline), userTimeline), R(100)))
      userDesired == goal.salaryExpectation.desired
      typicalMax == matchingScenario.typicalSalaryRange.max
      typicalMin == matchingScenario.typicalSalaryRange.min
      percentageOver ==
        MathRound(Mul(Div(R(userDesired - typicalMax), R(typicalMax)), R(100)))
  IN IF found = 0 THEN << >>
     ELSE IF Lt(userTimeline, Mul(averageTimeline, Rat(7, 10)))
     THEN << [ flag |-> "timeline_unrealistic",
               message |->
                 "Your target timeline of " \o NumStr(userTimeline) \o " months is "
                 \o NumStr(percentageFaster) \o "% shorter than the average "
                 \o NumStr(averageTimeline) \o " months for " \o matchingScenario.name
                 \o ". Based on industry data, " \o NumStr(percentageFaster)
                 \o "% of people with similar profiles take longer than your target. This suggests your expectations may be optimistic.",
               severity |-> 3,
               context |-> [ userTimeline |-> userTimeline,
                             averageTimeline |-> averageTimeline,
                             monthsShort |-> monthsShort,
                             percentageFaster |-> percentageFaster,
                             scenarioName |-> matchingScenario.name ],
               suggestedActions |->
                 << "Consider extending your timeline to " \o NumStr(averageTimeline)
                    \o " months to align with typical outcomes",
                    "Review common failure reasons for this path to understand typical challenges",
                    "Break your goal into phases with intermediate milestones",
                    "Set a more aggressive \"best case\" timeline while planning for the average case" >> ] >>
     ELSE IF /\ goal.salaryExpectation.present
             /\ matchingScenario.typicalSalaryRange.present
             /\ Gt(R(userDesired), Mul(R(typicalMax), Rat(12, 10)))
     THEN << [ flag |-> "salary_expectation_mismatch",
               message |->
                 "Your desired salary of " \o toLocaleString(userDesired) \o " "
                 \o goal.salaryExpectation.currency \o " is " \o NumStr(percentageOver)
                 \o "% higher than the typical maximum (" \o toLocaleString(typicalMax) \o " "
                 \o goal.salaryExpectation.currency \o ") for " \o matchingScenario.name
                 \o ". Only top performers at top companies typically reach this level. Your expectations may be unrealistic unless you have exceptional qualifications.",
               severity |-> 2,
               context |-> [ userDesired |-> userDesired,
                             typicalMin |-> typicalMin,
                             typicalMax |-> typicalMax,
                             percentageOver |-> percentageOver,
                             scenarioName |-> matchingScenario.name ],
               suggestedActions |->
                 << "Research salary ranges for your specific location and experience level",
                    "Consider that salary expectations may need adjustment based on your actual qualifications",
                    "Focus on building skills and experience first, salary will follow",
                    "Be open to accepting a lower initial salary to get your foot in the door" >> ] >>
     ELSE << >>

\* Variant: the last matching scenario of the table is used instead of the first
checkExpectationVsAveragesWarningLastMatch(table, profile, goal, probabilityBands) ==
  LET roleLower == toLowerCase(goal.targetRole)
      industryLower == toLowerCase(goal.targetIndustry)
      Matches(scenario) ==
        \/ includes(toLowerCase(scenario.targetRole), roleLower)
        \/ includes(roleLower, toLowerCase(scenario.targetRole))
        \/ /\ toLowerCase(scenario.targetIndustry) = industryLower
           /\ Le(R(scenario.minExperienceYears), Add(profile.experience.relevantYears, R(2)))
      matching == { i \in 1..Len(table) : Matches(table[i]) }
      found == IF matching = {} THEN 0 ELSE CHOOSE i \in matching : \A j \in matching : j <= i
      matchingScenario == table[found]
      userTimeline == R(goal.timeline.targetMonths)
      averageTimeline == R(matchingScenario.timelineRanges.averageCaseMonths)
      monthsShort == Div(MathRound(Mul(Sub(averageTimeline, userTimeline), R(10))), R(10))
      percentageFaster ==
        MathRound(Mul(Div(Sub(averageTimeline, userTimeline), averageTimeline), R(100)))
      userDesired == goal.salaryExpectation.desired
      typicalMax == matchingScenario.typicalSalaryRange.max
      typicalMin == matchingScenario.typicalSalaryRange.min
      percentageOver ==
        MathRound(Mul(Div(R(userDesired - typicalMax), R(typicalMax)), R(100)))
  IN IF found = 0 THEN << >>
     ELSE IF Lt(userTimeline, Mul(averageTimeline, Rat(7, 10)))
     THEN << [ flag |-> "timeline_unrealistic",
               message |->
                 "Your target timeline of " \o NumStr(userTimeline) \o " months is "
                 \o NumStr(percentageFaster) \o "% shorter than the average "
                 \o NumStr(averageTimeline) \o " months for " \o matchingScenario.name
                 \o ". Based on industry data, " \o NumStr(percentageFaster)
                 \o "% of people with similar profiles take longer than your target. This suggests your expectations may be optimistic.",
               severity |-> 3,
               context |-> [ userTimeline |-> userTimeline,
                             averageTimeline |-> averageTimeline,
                             monthsShort |-> monthsShort,
                             percentageFaster |-> percentageFaster,
                             scenarioName |-> matchingScenario.name ],
               suggestedActions |->
                 << "Consider extending your timeline to " \o NumStr(averageTimeline)
                    \o " months to align with typical outcomes",
                    "Review common failure reasons for this path to understand typical challenges",
                    "Break your goal into phases with intermediate milestones",
                    "Set a more aggressive \"best case\" timeline while planning for the average case" >> ] >>
     ELSE IF /\ goal.salaryExpectation.present
             /\ matchingScenario.typicalSalaryRange.present
             /\ Gt(R(userDesired), Mul(R(typicalMax), Rat(12, 10)))
     THEN << [ flag |-> "salary_expectation_mismatch",
               message |->
                 "Your desired salary of " \o toLocaleString(userDesired) \o " "
                 \o goal.salaryExpectation.currency \o " is " \o NumStr(percentageOver)
                 \o "% higher than the typical maximum (" \o toLocaleString(typicalMax) \o " "
                 \o goal.salaryExpectation.currency \o ") for " \o matchingScenario.name
                 \o ". Only top performers at top companies typically reach this level. Your expectations may be unrealistic unless you have exceptional qualifications.",
               severity |-> 2,
               context |-> [ userDesired |-> userDesired,
                             typicalMin |-> typicalMin,
                             typicalMax |-> typicalMax,
                             percentageOver |-> percentageOver,
                             scenarioName |-> matchingScenario.name ],
               suggestedActions |->
                 << "Research salary ranges for your specific location and experience level",
                    "Consider that salary expectations may need adjustment based on your actual qualifications",
                    "Focus on building skills and experience first, salary will follow",
                    "Be open to accepting a lower initial salary to get your foot in the door" >> ] >>
     ELSE << >>

\* Variant: the industries are compared with their letter case
checkExpectationVsAveragesWarningCaseSensitive(table, profile, goal, probabilityBands) ==
  LET roleLower == toLowerCase(goal.targetRole)
      industryLower == toLowerCase(goal.targetIndustry)
      Matches(scenario) ==
        \/ includes(toLowerCase(scenario.targetRole), roleLower)
        \/ includes(roleLower, toLowerCase(scenario.targetRole))
        \/ /\ scenario.targetIndustry = goal.targetIndustry
           /\ Le(R(scenario.minExperienceYears), Add(profile.experience.relevantYears, R(2)))
      found == FindIndex(table, Matches)
      matchingScenario == table[found]
      userTimeline == R(goal.timeline.targetMonths)
      averageTimeline == R(matchingScenario.timelineRanges.averageCaseMonths)
      monthsShort == Div(MathRound(Mul(Sub(averageTimeline, userTimeline), R(10))), R(10))
      percentageFaster ==
        MathRound(Mul(Div(Sub(averageTimeline, userTimeline), averageTimeline), R(100)))
      userDesired == goal.salaryExpectation.desired
      typicalMax == matchingScenario.typicalSalaryRange.max
      typicalMin == matchingScenario.typicalSalaryRange.min
      percentageOver ==
        MathRound(Mul(Div(R(userDesired - typicalMax), R(typicalMax)), R(100)))
  IN IF found = 0 THEN << >>
     ELSE IF Lt(userTimeline, Mul(averageTimeline, Rat(7, 10)))
     THEN << [ flag |-> "timeline_unrealistic",
               message |->
                 "Your target timeline of " \o NumStr(userTimeline) \o " months is "
                 \o NumStr(percentageFaster) \o "% shorter than the average "
                 \o NumStr(averageTimeline) \o " months for " \o matchingScenario.name
                 \o ". Based on industry data, " \o NumStr(percentageFaster)
                 \o "% of people with similar profiles take longer than your target. This suggests your expectations may be optimistic.",
               severity |-> 3,
               context |-> [ userTimeline |-> userTimeline,
                             averageTimeline |-> averageTimeline,
                             monthsShort |-> monthsShort,
                             percentageFaster |-> percentageFaster,
                             scenarioName |-> matchingScenario.name ],
               suggestedActions |->
                 << "Consider extending your timeline to " \o NumStr(averageTimeline)
                    \o " months to align with typical outcomes",
                    "Review common failure reasons for this path to understand typical challenges",
                    "Break your goal into phases with intermediate milestones",
                    "Set a more aggressive \"best case\" timeline while planning for the average case" >> ] >>
     ELSE IF /\ goal.salaryExpectation.present
             /\ matchingScenario.typicalSalaryRange.present
             /\ Gt(R(userDesired), Mul(R(typicalMax), Rat(12, 10)))
     THEN << [ flag |-> "salary_expectation_mismatch",
               message |->
                 "Your desired salary of " \o toLocaleString(userDesired) \o " "
                 \o goal.salaryExpectation.currency \o " is " \o NumStr(percentageOver)
                 \o "% higher than the typical maximum (" \o toLocaleString(typicalMax) \o " "
                 \o goal.salaryExpectation.currency \o ") for " \o matchingScenario.name
                 \o ". Only top performers at top companies typically reach this level. Your expectations may be unrealistic unless you have exceptional qualifications.",
               severity |-> 2,
               context |-> [ userDesired |-> userDesired,
                             typicalMin |-> typicalMin,
                             typicalMax |-> typicalMax,
                             percentageOver |-> percentageOver,
                             scenarioName |-> matchingScenario.name ],
               suggestedActions |->
                 << "Research salary ranges for your specific location and experience level",
                    "Consider that salary expectations may need adjustment based on your actual qualifications",
                    "Focus on building skills and experience first, salary will follow",
                    "Be open to accepting a lower initial salary to get your foot in the door" >> ] >>
     ELSE << >>

\* Variant: the salary comparison takes precedence over the timeline comparison
checkExpectationVsAveragesWarningSalaryFirst(table, profile, goal, probabilityBands) ==
  LET roleLower == toLowerCase(goal.targetRole)
      industryLower == toLowerCase(goal.targetIndustry)
      Matches(scenario) ==
        \/ includes(toLowerCase(scenario.targetRole), roleLower)
        \/ includes(roleLower, toLowerCase(scenario.targetRole))
        \/ /\ toLowerCase(scenario.targetIndustry) = industryLower
           /\ Le(R(scenario.minExperienceYears), Add(profile.experience.relevantYears, R(2)))
      found == FindIndex(table, Matches)
      matchingScenario == table[found]
      userTimeline == R(goal.timeline.targetMonths)
      averageTimeline == R(matchingScenario.timelineRanges.averageCaseMonths)
      monthsShort == Div(MathRound(Mul(Sub(averageTimeline, userTimeline), R(10))), R(10))
      percentageFaster ==
        MathRound(Mul(Div(Sub(averageTimeline, userTimeline), averageTimeline), R(100)))
      userDesired == goal.salaryExpectation.desired
      typicalMax == matchingScenario.typicalSalaryRange.max
      typicalMin == matchingScenario.typicalSalaryRange.min
      percentageOver ==
        MathRound(Mul(Div(R(userDesired - typicalMax), R(typicalMax)), R(100)))
  IN IF found = 0 THEN << >>
     ELSE IF /\ Lt(userTimeline, Mul(averageTimeline, Rat(7, 10)))
             /\ ~(/\ goal.salaryExpectation.present
                  /\ Gt(R(userDesired), Mul(R(typicalMax), Rat(12, 10))))
     THEN << [ flag |-> "timeline_unrealistic",
               message |->
                 "Your target timeline of " \o NumStr(userTimeline) \o " months is "
                 \o NumStr(percentageFaster) \o "% shorter than the average "
                 \o NumStr(averageTimeline) \o " months for " \o matchingScenario.name
                 \o ". Based on industry data, " \o NumStr(percentageFaster)
                 \o "% of people with similar profiles take longer than your target. This suggests your expectations may be optimistic.",
               severity |-> 3,
               context |-> [ userTimeline |-> userTimeline,
                             averageTimeline |-> averageTimeline,
                             monthsShort |-> monthsShort,
                             percentageFaster |-> percentageFaster,
                             scenarioName |-> matchingScenario.name ],
               suggestedActions |->
                 << "Consider extending your timeline to " \o NumStr(averageTimeline)
                    \o " months to align with typical outcomes",
                    "Review common failure reasons for this path to understand typical challenges",
                    "Break your goal into phases with intermediate milestones",
                    "Set a more aggressive \"best case\" timeline while planning for the average case" >> ] >>
     ELSE IF /\ goal.salaryExpectation.present
             /\ matchingScenario.typicalSalaryRange.present
             /\ Gt(R(userDesired), Mul(R(typicalMax), Rat(12, 10)))
     THEN << [ flag |-> "salary_expectation_mismatch",
               message |->
                 "Your desired salary of " \o toLocaleString(userDesired) \o " "
                 \o goal.salaryExpectation.currency \o " is " \o NumStr(percentageOver)
                 \o "% higher than the typical maximum (" \o toLocaleString(typicalMax) \o " "
                 \o goal.salaryExpectation.currency \o ") for " \o matchingScenario.name
                 \o ". Only top performers at top companies typically reach this level. Your expectations may be unrealistic unless you have exceptional qualifications.",
               severity |-> 2,
               context |-> [ userDesired |-> userDesired,
                             typicalMin |-> typicalMin,
                             typicalMax |-> typicalMax,
                             percentageOver |-> percentageOver,
                             scenarioName |-> matchingScenario.name ],
               suggestedActions |->
                 << "Research salary ranges for your specific location and experience level",
                    "Consider that salary expectations may need adjustment based on your actual qualifications",
                    "Focus on building skills and experience first, salary will follow",
                    "Be open to accepting a lower initial salary to get your foot in the door" >> ] >>
     ELSE << >>

checkExpectationVsAveragesWarning(table, profile, goal, probabilityBands) ==
  LET roleLower == toLowerCase(goal.targetRole)
      industryLower == toLowerCase(goal.targetIndustry)
      Matches(scenario) ==
        \/ includes(toLowerCase(scenario.targetRole), roleLower)
        \/ includes(roleLower, toLowerCase(scenario.targetRole))
        \/ /\ toLowerCase(scenario.targetIndustry) = industryLower
           /\ Le(R(scenario.minExperienceYears), Add(profile.experience.relevantYears, R(2)))
      found == FindIndex(table, Matches)
      matchingScenario == table[found]
      userTimeline == R(goal.timeline.targetMonths)
      averageTimeline == R(matchingScenario.timelineRanges.averageCaseMonths)
      monthsShort == Div(MathRound(Mul(Sub(averageTimeline, userTimeline), R(10))), R(10))
      percentageFaster ==
        MathRound(Mul(Div(Sub(averageTimeline, userTimeline), averageTimeline), R(100)))
      userDesired == goal.salaryExpectation.desired
      typicalMax == matchingScenario.typicalSalaryRange.max
      typicalMin == matchingScenario.typicalSalaryRange.min
      percentageOver ==
        MathRound(Mul(Div(R(userDesired - typicalMax), R(typicalMax)), R(100)))
  IN IF found = 0 THEN << >>
     ELSE IF Lt(userTimeline, Mul(averageTimeline, Rat(7, 10)))
     THEN << [ flag |-> "timeline_unrealistic",
               message |->
                 "Your target timeline of " \o NumStr(userTimeline) \o " months is "
                 \o NumStr(percentageFaster) \o "% shorter than the average "
                 \o NumStr(averageTimeline) \o " months for " \o matchingScenario.name
                 \o ". Based on industry data, " \o NumStr(percentageFaster)
                 \o "% of people with similar profiles take longer than your target. This suggests your expectations may be optimistic.",
               severity |-> 3,
               context |-> [ userTimeline |-> userTimeline,
                             averageTimeline |-> averageTimeline,
                             monthsShort |-> monthsShort,
                             percentageFaster |-> percentageFaster,
                             scenarioName |-> matchingScenario.name ],
               suggestedActions |->
                 << "Consider extending your timeline to " \o NumStr(averageTimeline)
                    \o " months to align with typical outcomes",
                    "Review common failure reasons for this path to understand typical challenges",
                    "Break your goal into phases with intermediate milestones",
                    "Set a more aggressive \"best case\" timeline while planning for the average case" >> ] >>
     ELSE IF /\ goal.salaryExpectation.present
             /\ matchingScenario.typicalSalaryRange.present
             /\ Gt(R(userDesired), Mul(R(typicalMax), Rat(12, 10)))
     THEN << [ flag |-> "salary_expectation_mismatch",
               message |->
                 "Your desired salary of " \o toLocaleString(userDesired) \o " "
                 \o goal.salaryExpectation.currency \o " is " \o NumStr(percentageOver)
                 \o "% higher than the typical maximum (" \o toLocaleString(typicalMax) \o " "
                 \o goal.salaryExpectation.currency \o ") for " \o matchingScenario.name
                 \o ". Only top performers at top companies typically reach this level. Your expectations may be unrealistic unless you have exceptional qualifications.",
               severity |-> 2,
               context |-> [ userDesired |-> userDesired,
                             typicalMin |-> typicalMin,
                             typicalMax |-> typicalMax,
                             percentageOver |-> percentageOver,
                             scenarioName |-> matchingScenario.name ],
               suggestedActions |->
                 << "Research salary ranges for your specific location and experience level",
                    "Consider that salary expectations may need adjustment based on your actual qualifications",
                    "Focus on building skills and experience first, salary will follow",
                    "Be open to accepting a lower initial salary to get your foot in the door" >> ] >>
     ELSE << >>


\* Variant: a skill one level below the requirement already counts as low
checkSkillMismatchRisksWarningOneLevel(table, profile, goal, skillScore) ==
  LET roleLower == toLowerCase(goal.targetRole)
      industryLower == toLowerCase(goal.targetIndustry)
      Matches(scenario) ==
        \/ includes(toLowerCase(scenario.targetRole), roleLower)
        \/ includes(roleLower, toLowerCase(scenario.targetRole))
        \/ /\ toLowerCase(scenario.targetIndustry) = industryLower
           /\ Le(R(scenario.minExperienceYears), Add(profile.experience.relevantYears, R(2)))
      found == FindIndex(table, Matches)
      matchingScenario == table[found]
      requirements == matchingScenario.skillRequirements
      skillNamesLower == Map(profile.skills, LAMBDA skill : toLowerCase(skill.name))
      \* profile.skills.find(...) for one requirement: an index into profile.skills, 0 if none
      UserSkillIndex(requirement) ==
        LET requiredLower == toLowerCase(requirement.skillName)
            NameMatches(nameLower) ==
              \/ includes(nameLower, requiredLower)
              \/ includes(requiredLower, nameLower)
        IN IF requirement.isCritical THEN FindIndex(skillNamesLower, NameMatches) ELSE 0
      userSkill == Map(requirements, UserSkillIndex)
      IsMissing(i) == requirements[i].isCritical /\ userSkill[i] = 0
      IsLow(i) ==
        /\ requirements[i].isCritical
        /\ userSkill[i] # 0
        /\ profile.skills[userSkill[i]].proficiency < requirements[i].minProficiency
        /\ requirements[i].minProficiency - profile.skills[userSkill[i]].proficiency >= 1
      criticalMissingSkills ==
        LET RECURSIVE Collect(_)
            Collect(i) ==
              IF i > Len(requirements) THEN << >>
              ELSE When(IsMissing(i), <<requirements[i].skillName>>) \o Collect(i + 1)
        IN Collect(1)
      lowProficiencySkills ==
        LET RECURSIVE Collect(_)
            Collect(i) ==
              IF i > Len(requirements) THEN << >>
              ELSE When(IsLow(i),
                        << [ name |-> requirements[i].skillName,
                             current |-> profile.skills[userSkill[i]].proficiency,
                             required |-> requirements[i].minProficiency ] >>)
                   \o Collect(i + 1)
        IN Collect(1)
      MonthsFor(skillName) ==
        LET HasName(r) == r.skillName = skillName
            req == FindIndex(requirements, HasName)
        IN IF req = 0 \/ requirements[req].monthsToLearn = 0 THEN 6
           ELSE requirements[req].monthsToLearn
      monthsToLearn ==
        LET RECURSIVE Sum(_)
            Sum(i) == IF i > Len(criticalMissingSkills) THEN 0
                      ELSE MonthsFor(criticalMissingSkills[i]) + Sum(i + 1)
        IN Sum(1)
      skillDetails ==
        join(Map(lowProficiencySkills,
                 LAMBDA low : low.name \o " (current: " \o ToString(low.current)
                              \o "/5, needed: " \o ToString(low.required) \o "/5)"),
             "; ")
  IN IF found = 0
     THEN When(Lt(skillScore, R(40)),
               << [ flag |-> "skill_gap_detected",
                    message |-> "Significant skill gaps detected. Without specific role requirements, we recommend researching the exact skills needed for this position and comparing them to your current skill set.",
                    severity |-> 3,
                    suggestedActions |->
                      << "Research job postings for your target role to identify required skills",
                         "Compare your current skills against typical requirements",
                         "Create a learning plan to address skill gaps",
                         "Consider informational interviews with people in the role" >> ] >>)
     ELSE When(Len(criticalMissingSkills) > 0,
               << [ flag |-> "skill_gap_detected",
                    message |->
                      "You are missing " \o ToString(Len(criticalMissingSkills)) \o " critical skill"
                      \o (IF Len(criticalMissingSkills) > 1 THEN "s" ELSE "")
                      \o " required for " \o matchingScenario.name \o ": "
                      \o join(criticalMissingSkills, ", ")
                      \o ". Based on typical learning curves, acquiring these skills could take approximately "
                      \o ToString(monthsToLearn)
                      \o " months. This is a significant gap that must be addressed before you can realistically achieve this goal.",
                    severity |-> 3,
                    context |-> [ missingSkills |-> criticalMissingSkills,
                                  estimatedMonthsToLearn |-> monthsToLearn,
                                  scenarioName |-> matchingScenario.name ],
                    suggestedActions |->
                      << "Prioritize learning: " \o criticalMissingSkills[1] \o " (most critical)",
                         "Create a structured learning plan with milestones",
                         "Build projects that demonstrate these skills",
                         "Consider taking courses or finding a mentor",
                         "Adjust your timeline to account for " \o ToString(monthsToLearn)
                         \o " months of skill development" >> ] >>)
          \o
          When(Len(lowProficiencySkills) > 0,
               << [ flag |-> "skill_gap_detected",
                    message |->
                      "Your proficiency in " \o ToString(Len(lowProficiencySkills)) \o " critical skill"
                      \o (IF Len(lowProficiencySkills) > 1 THEN "s is" ELSE " is")
                      \o " below the required level: " \o skillDetails
                      \o ". You'll need to significantly improve these skills, which typically requires "
                      \o ToString(Len(lowProficiencySkills) * 2) \o "-"
                      \o ToString(Len(lowProficiencySkills) * 4) \o " months of focused practice.",
                    severity |-> 2,
                    context |-> [ lowProficiencySkills |-> lowProficiencySkills,
                                  scenarioName |-> matchingScenario.name ],
                    suggestedActions |->
                      << "Focus on deliberate practice in these specific skill areas",
                         "Build projects that require these skills at the target proficiency level",
                         "Seek feedback from experts or mentors",
                         "Consider taking advanced courses or workshops" >> ] >>)

checkSkillMismatchRisksWarning(table, profile, goal, skillScore) ==
  LET roleLower == toLowerCase(goal.targetRole)
      industryLower == toLowerCase(goal.targetIndustry)
      Matches(scenario) ==
        \/ includes(toLowerCase(scenario.targetRole), roleLower)
        \/ includes(roleLower, toLowerCase(scenario.targetRole))
        \/ /\ toLowerCase(scenario.targetIndustry) = industryLower
           /\ Le(R(scenario.minExperienceYears), Add(profile.experience.relevantYears, R(2)))
      found == FindIndex(table, Matches)
      matchingScenario == table[found]
      requirements == matchingScenario.skillRequirements
      skillNamesLower == Map(profile.skills, LAMBDA skill : toLowerCase(skill.name))
      \* profile.skills.find(...) for one requirement: an index into profile.skills, 0 if none
      UserSkillIndex(requirement) ==
        LET requiredLower == toLowerCase(requirement.skillName)
            NameMatches(nameLower) ==
              \/ includes(nameLower, requiredLower)
              \/ includes(requiredLower, nameLower)
        IN IF requirement.isCritical THEN FindIndex(skillNamesLower, NameMatches) ELSE 0
      userSkill == Map(requirements, UserSkillIndex)
      IsMissing(i) == requirements[i].isCritical /\ userSkill[i] = 0
      IsLow(i) ==
        /\ requirements[i].isCritical
        /\ userSkill[i] # 0
        /\ profile.skills[userSkill[i]].proficiency < requirements[i].minProficiency
        /\ requirements[i].minProficiency - profile.skills[userSkill[i]].proficiency >= 2
      criticalMissingSkills ==
        LET RECURSIVE Collect(_)
            Collect(i) ==
              IF i > Len(requirements) THEN << >>
              ELSE When(IsMissing(i), <<requirements[i].skillName>>) \o Collect(i + 1)
        IN Collect(1)
      lowProficiencySkills ==
        LET RECURSIVE Collect(_)
            Collect(i) ==
              IF i > Len(requirements) THEN << >>
              ELSE When(IsLow(i),
                        << [ name |-> requirements[i].skillName,
                             current |-> profile.skills[userSkill[i]].proficiency,
                             required |-> requirements[i].minProficiency ] >>)
                   \o Collect(i + 1)
        IN Collect(1)
      MonthsFor(skillName) ==
        LET HasName(r) == r.skillName = skillName
            req == FindIndex(requirements, HasName)
        IN IF req = 0 \/ requirements[req].monthsToLearn = 0 THEN 6
           ELSE requirements[req].monthsToLearn
      monthsToLearn ==
        LET RECURSIVE Sum(_)
            Sum(i) == IF i > Len(criticalMissingSkills) THEN 0
                      ELSE MonthsFor(criticalMissingSkills[i]) + Sum(i + 1)
        IN Sum(1)
      skillDetails ==
        join(Map(lowProficiencySkills,
                 LAMBDA low : low.name \o " (current: " \o ToString(low.current)
                              \o "/5, needed: " \o ToString(low.required) \o "/5)"),
             "; ")
  IN IF found = 0
     THEN When(Lt(skillScore, R(40)),
               << [ flag |-> "skill_gap_detected",
                    message |-> "Significant skill gaps detected. Without specific role requirements, we recommend researching the exact skills needed for this position and comparing them to your current skill set.",
                    severity |-> 3,
                    suggestedActions |->
                      << "Research job postings for your target role to identify required skills",
                         "Compare your current skills against typical requirements",
                         "Create a learning plan to address skill gaps",
                         "Consider informational interviews with people in the role" >> ] >>)
     ELSE When(Len(criticalMissingSkills) > 0,
               << [ flag |-> "skill_gap_detected",
                    message |->
                      "You are missing " \o ToString(Len(criticalMissingSkills)) \o " critical skill"
                      \o (IF Len(criticalMissingSkills) > 1 THEN "s" ELSE "")
                      \o " required for " \o matchingScenario.name \o ": "
                      \o join(criticalMissingSkills, ", ")
                      \o ". Based on typical learning curves, acquiring these skills could take approximately "
                      \o ToString(monthsToLearn)
                      \o " months. This is a significant gap that must be addressed before you can realistically achieve this goal.",
                    severity |-> 3,
                    context |-> [ missingSkills |-> criticalMissingSkills,
                                  estimatedMonthsToLearn |-> monthsToLearn,
                                  scenarioName |-> matchingScenario.name ],
                    suggestedActions |->
                      << "Prioritize learning: " \o criticalMissingSkills[1] \o " (most critical)",
                         "Create a structured learning plan with milestones",
                         "Build projects that demonstrate these skills",
                         "Consider taking courses or finding a mentor",
                         "Adjust your timeline to account for " \o ToString(monthsToLearn)
                         \o " months of skill development" >> ] >>)
          \o
          When(Len(lowProficiencySkills) > 0,
               << [ flag |-> "skill_gap_detected",
                    message |->
                      "Your proficiency in " \o ToString(Len(lowProficiencySkills)) \o " critical skill"
                      \o (IF Len(lowProficiencySkills) > 1 THEN "s is" ELSE " is")
                      \o " below the required level: " \o skillDetails
                      \o ". You'll need to significantly improve these skills, which typically requires "
                      \o ToString(Len(lowProficiencySkills) * 2) \o "-"
                      \o ToString(Len(lowProficiencySkills) * 4) \o " months of focused practice.",
                    severity |-> 2,
                    context |-> [ lowProficiencySkills |-> lowProficiencySkills,
                                  scenarioName |-> matchingScenario.name ],
                    suggestedActions |->
                      << "Focus on deliberate practice in these specific skill areas",
                         "Build projects that require these skills at the target proficiency level",
                         "Seek feedback from experts or mentors",
                         "Consider taking advanced courses or workshops" >> ] >>)

\* Variant: the expectation check is appended before the time availability check
generateWarningsExpectationFirst(table, profile, goal, scores, probabilityBands) ==
  LET targetLocation == IF goal.requirements.present
                        THEN goal.requirements.targetLocation ELSE Undefined
      locationIsFlexible == profile.location.present /\ profile.location.isFlexible
      remoteOnly == goal.requirements.present /\ goal.requirements.remoteOnly
  IN When(Lt(scores.timelineScore, R(40)),
          << [ flag |-> "timeline_unrealistic",
               message |-> "Your target timeline of " \o ToString(goal.timeline.targetMonths)
                           \o " months may be unrealistic given your current profile. Consider extending your timeline.",
               severity |-> 3,
               suggestedActions |->
                 << "Review and adjust your timeline expectations",
                    "Break down your goal into smaller milestones",
                    "Consider a phased approach to your career transition" >> ] >>)
     \o
     When(Lt(scores.experienceScore, R(40)),
          << [ flag |-> "insufficient_experience",
               message |-> "You have insufficient relevant experience for this role. Significant experience building will be required.",
               severity |-> 3,
               context |-> [ relevantYears |-> profile.experience.relevantYears,
                             targetRole |-> goal.targetRole ],
               suggestedActions |->
                 << "Consider targeting a more junior role first",
                    "Focus on gaining relevant experience through projects",
                    "Look for opportunities to work in related roles" >> ] >>)
     \o
     When(Lt(scores.skillScore, R(40)),
          << [ flag |-> "skill_gap_detected",
               message |-> "Significant skill gaps detected. You will need to invest substantial time in skill development.",
               severity |-> 3,
               suggestedActions |->
                 << "Identify critical skills needed for the role",
                    "Create a learning plan with timelines",
                    "Practice skills through real projects" >> ] >>)
     \o
     When(Lt(scores.educationScore, R(40)),
          << [ flag |-> "education_requirement_mismatch",
               message |-> "Your education level may not meet typical requirements for this role.",
               severity |-> 2,
               suggestedActions |->
                 << "Research if the role truly requires higher education",
                    "Consider certifications or alternative credentials",
                    "Highlight relevant experience to compensate" >> ] >>)
     \o
     When(Lt(profile.experience.relevantYears, R(1)) /\ goal.targetIndustry # "",
          << [ flag |-> "career_path_unclear",
               message |-> "You are attempting a significant career change. This will require more time and effort than a typical transition.",
               severity |-> 2,
               suggestedActions |->
                 << "Research the target industry thoroughly",
                    "Network with people already in the field",
                    "Consider informational interviews",
                    "Build relevant experience gradually" >> ] >>)
     \o
     When(targetLocation # Undefined /\ targetLocation # "" /\ ~locationIsFlexible,
          << [ flag |-> "location_constraint",
               message |-> "Your location requirement may limit opportunities. Consider if relocation is possible.",
               severity |-> 1,
               suggestedActions |->
                 << "Research job market in your target location",
                    "Consider remote work options if available",
                    "Evaluate if relocation is feasible" >> ] >>)
     \o
     When(remoteOnly,
          << [ flag |-> "competition_level_high",
               message |-> "Remote-only positions are highly competitive. You may face more competition.",
               severity |-> 2,
               suggestedActions |->
                 << "Consider hybrid or on-site options to increase opportunities",
                    "Strengthen your remote work skills and portfolio",
                    "Be prepared for a longer job search" >> ] >>)
     \o checkExpectationVsAveragesWarning(table, profile, goal, probabilityBands)
     \o checkTimeAvailabilityWarning(profile, goal, probabilityBands)
     \o checkSkillMismatchRisksWarning(table, profile, goal, scores.skillScore)

generateWarnings(table, profile, goal, scores, probabilityBands) ==
  LET targetLocation == IF goal.requirements.present
                        THEN goal.requirements.targetLocation ELSE Undefined
      locationIsFlexible == profile.location.present /\ profile.location.isFlexible
      remoteOnly == goal.requirements.present /\ goal.requirements.remoteOnly
  IN When(Lt(scores.timelineScore, R(40)),
          << [ flag |-> "timeline_unrealistic",
               message |-> "Your target timeline of " \o ToString(goal.timeline.targetMonths)
                           \o " months may be unrealistic given your current profile. Consider extending your timeline.",
               severity |-> 3,
               suggestedActions |->
                 << "Review and adjust your timeline expectations",
                    "Break down your goal into smaller milestones",
                    "Consider a phased approach to your career transition" >> ] >>)
     \o
     When(Lt(scores.experienceScore, R(40)),
          << [ flag |-> "insufficient_experience",
               message |-> "You have insufficient relevant experience for this role. Significant experience building will be required.",
               severity |-> 3,
               context |-> [ relevantYears |-> profile.experience.relevantYears,
                             targetRole |-> goal.targetRole ],
               suggestedActions |->
                 << "Consider targeting a more junior role first",
                    "Focus on gaining relevant experience through projects",
                    "Look for opportunities to work in related roles" >> ] >>)
     \o
     When(Lt(scores.skillScore, R(40)),
          << [ flag |-> "skill_gap_detected",
               message |-> "Significant skill gaps detected. You will need to invest substantial time in skill development.",
               severity |-> 3,
               suggestedActions |->
                 << "Identify critical skills needed for the role",
                    "Create a learning plan with timelines",
                    "Practice skills through real projects" >> ] >>)
     \o
     When(Lt(scores.educationScore, R(40)),
          << [ flag |-> "education_requirement_mismatch",
               message |-> "Your education level may not meet typical requirements for this role.",
               severity |-> 2,
               suggestedActions |->
                 << "Research if the role truly requires higher education",
                    "Consider certifications or alternative credentials",
                    "Highlight relevant experience to compensate" >> ] >>)
     \o
     When(Lt(profile.experience.relevantYears, R(1)) /\ goal.targetIndustry # "",
          << [ flag |-> "career_path_unclear",
               message |-> "You are attempting a significant career change. This will require more time and effort than a typical transition.",
               severity |-> 2,
               suggestedActions |->
                 << "Research the target industry thoroughly",
                    "Network with people already in the field",
                    "Consider informational interviews",
                    "Build relevant experience gradually" >> ] >>)
     \o
     When(targetLocation # Undefined /\ targetLocation # "" /\ ~locationIsFlexible,
          << [ flag |-> "location_constraint",
               message |-> "Your location requirement may limit opportunities. Consider if relocation is possible.",
               severity |-> 1,
               suggestedActions |->
                 << "Research job market in your target location",
                    "Consider remote work options if available",
                    "Evaluate if relocation is feasible" >> ] >>)
     \o
     When(remoteOnly,
          << [ flag |-> "competition_level_high",
               message |-> "Remote-only positions are highly competitive. You may face more competition.",
               severity |-> 2,
               suggestedActions |->
                 << "Consider hybrid or on-site options to increase opportunities",
                    "Strengthen your remote work skills and portfolio",
                    "Be prepared for a longer job search" >> ] >>)
     \o checkTimeAvailabilityWarning(profile, goal, probabilityBands)
     \o checkExpectationVsAveragesWarning(table, profile, goal, probabilityBands)
     \o checkSkillMismatchRisksWarning(table, profile, goal, scores.skillScore)

-----------------------------------------------------------------------------
(* Evaluator: recommendations *)

RECURSIVE CriticalGapNames(_)
CriticalGapNames(gaps) ==
  IF Len(gaps) = 0 THEN << >>
  ELSE When(gaps[1].priority = 1, <<gaps[1].skillName>>) \o CriticalGapNames(Tail(gaps))

\* Variant: the career-change advice is given only without any relevant experience
generateRecommendationsNoExperienceOnly(profile, goal, experienceScore, skillScore, educationScore, timelineScore, skillGaps) ==
  LET criticalGaps == CriticalGapNames(skillGaps)
  IN When(Lt(experienceScore, R(70)),
          <<"Focus on gaining relevant experience through side projects, freelancing, or volunteering">>
          \o When(profile.experience.relevantYears = R(0),
                  <<"Consider targeting an entry-level or junior role first to build experience">>))
     \o
     When(Lt(skillScore, R(70)),
          When(Len(criticalGaps) > 0, <<"Prioritize learning: " \o join(criticalGaps, ", ")>>)
          \o <<"Build a portfolio showcasing your skills through real projects">>)
     \o
     When(/\ Lt(educationScore, R(70))
          /\ (profile.education.level = "high_school" \/ profile.education.level = "none"),
          <<"Consider pursuing relevant certifications or online courses",
            "Research if the role truly requires a degree, or if experience can substitute">>)
     \o
     When(Lt(timelineScore, R(50)),
          <<"Consider extending your timeline to make the goal more achievable",
            "Break your goal into smaller milestones with intermediate targets">>)
     \o
     <<"Network actively in your target industry through LinkedIn, meetups, and events",
       "Research the job market and salary ranges for your target role",
       "Prepare a strong resume and cover letter tailored to your target role",
       "Practice interview skills, especially for technical roles">>
     \o
     When(profile.experience.relevantYears = R(0),
          <<"Conduct informational interviews with people in your target field",
            "Consider shadowing or internships to gain industry exposure">>)

generateRecommendations(profile, goal, experienceScore, skillScore, educationScore, timelineScore, skillGaps) ==
  LET criticalGaps == CriticalGapNames(skillGaps)
  IN When(Lt(experienceScore, R(70)),
          <<"Focus on gaining relevant experience through side projects, freelancing, or volunteering">>
          \o When(profile.experience.relevantYears = R(0),
                  <<"Consider targeting an entry-level or junior role first to build experience">>))
     \o
     When(Lt(skillScore, R(70)),
          When(Len(criticalGaps) > 0, <<"Prioritize learning: " \o join(criticalGaps, ", ")>>)
          \o <<"Build a portfolio showcasing your skills through real projects">>)
     \o
     When(/\ Lt(educationScore, R(70))
          /\ (profile.education.level = "high_school" \/ profile.education.level = "none"),
          <<"Consider pursuing relevant certifications or online courses",
            "Research if the role truly requires a degree, or if experience can substitute">>)
     \o
     When(Lt(timelineScore, R(50)),
          <<"Consider extending your timeline to make the goal more achievable",
            "Break your goal into smaller milestones with intermediate targets">>)
     \o
     <<"Network actively in your target industry through LinkedIn, meetups, and events",
       "Research the job market and salary ranges for your target role",
       "Prepare a strong resume and cover letter tailored to your target role",
       "Practice interview skills, especially for technical roles">>
     \o
     When(Lt(profile.experience.relevantYears, R(1)),
          <<"Conduct informational interviews with people in your target field",
            "Consider shadowing or internships to gain industry exposure">>)

-----------------------------------------------------------------------------
(* Evaluator.evaluate, as one call *)

evaluate(table, profile, goal, time) ==
  LET experienceScore == calculateExperienceScore(profile, goal)
      skillScore == calculateSkillScore(profile, goal)
      educationScore == calculateEducationScore(profile, goal)
      timelineScore == calculateTimelineScore(profile, goal)
      overallScore == calculateOverallScore(experienceScore, skillScore,
                                            educationScore, timelineScore)
      probabilityBands ==
        calculateProbabilityBands(profile, goal, experienceScore, skillScore,
                                  educationScore, timelineScore, overallScore)
      warnings ==
        generateWarnings(table, profile, goal,
                         [ experienceScore |-> experienceScore,
                           skillScore |-> skillScore,
                           educationScore |-> educationScore,
                           timelineScore |-> timelineScore ],
                         probabilityBands)
      skillGaps == identifySkillGaps(profile, goal)
      recommendations ==
        generateRecommendations(profile, goal, experienceScore, skillScore,
                                educationScore, timelineScore, skillGaps)
  IN [ overallScore |-> overallScore,
       probabilityBands |-> probabilityBands,
       warnings |-> warnings,
       skillGaps |-> skillGaps,
       recommendations |-> recommendations,
       scoreBreakdown |-> [ experienceScore |-> experienceScore,
                            skillScore |-> skillScore,
                            educationScore |-> educationScore,
                            timelineScore |-> timelineScore ],
       metadata |-> [ evaluatedAt |-> time, engineVersion |-> "0.1.0" ] ]

-----------------------------------------------------------------------------
(* Request bodies *)

Skill(name, proficiency) == [name |-> name, proficiency |-> proficiency]

NoLocation == [present |-> FALSE, isFlexible |-> FALSE]
NoRequirements == [present |-> FALSE, remoteOnly |-> FALSE, targetLocation |-> Undefined]
NoSalary == [present |-> FALSE, desired |-> 0, currency |-> "USD"]

MakeProfile(level, field, totalYears, relevantYears, skills, employmentStatus, location) ==
  [ education |-> [level |-> level, field |-> field],
    experience |-> [totalYears |-> totalYears, relevantYears |-> relevantYears],
    skills |-> skills,
    employmentStatus |-> employmentStatus,
    location |-> location ]

MakeGoal(targetRole, targetIndustry, targetMonths, salaryExpectation, requirements) ==
  [ targetRole |-> targetRole,
    targetIndustry |-> targetIndustry,
    timeline |-> [targetMonths |-> targetMonths],
    salaryExpectation |-> salaryExpectation,
    requirements |-> requirements ]

\* Example 1 of the specification: nothing to show, six months to go
ProfileNovice == MakeProfile("none", "", R(0), R(0), << >>, "employed", NoLocation)
GoalNovice == MakeGoal("Software Engineer", "Technology", 6, NoSalary, NoRequirements)

\* A seasoned engineer aiming at a scenario of the table
ProfileSenior ==
  MakeProfile("bachelors", "Computer Science", R(8), R(6),
              << Skill("Python", 5), Skill("System Design", 1), Skill("Problem Solving", 4) >>,
              "employed", [present |-> TRUE, isFlexible |-> FALSE])
GoalSenior ==
  MakeGoal("Senior Software Development Engineer", "Technology", 12,
           [present |-> TRUE, desired |-> 400000, currency |-> "USD"],
           [present |-> TRUE, remoteOnly |-> TRUE, targetLocation |-> "Berlin"])

\* A body: text that is not JSON, the JSON value null, or a JSON object that
\* may lack profile or goal, or carry a profile object without its fields
Body(syntax, hasProfile, hasGoal, wellTyped, profile, goal) ==
  [ syntax |-> syntax, hasProfile |-> hasProfile, hasGoal |-> hasGoal,
    wellTyped |-> wellTyped, profile |-> profile, goal |-> goal ]

OkBody(profile, goal) == Body("object", TRUE, TRUE, TRUE, profile, goal)

MalformedBody == Body("malformed", FALSE, FALSE, FALSE, ProfileNovice, GoalNovice)

InvalidBodies ==
  { MalformedBody,
    Body("null", FALSE, FALSE, FALSE, ProfileNovice, GoalNovice),
    Body("object", FALSE, TRUE, TRUE, ProfileNovice, GoalNovice),
    Body("object", TRUE, FALSE, TRUE, ProfileNovice, GoalNovice),
    Body("object", TRUE, TRUE, FALSE, ProfileNovice, GoalNovice) }

SmallBodies ==
  InvalidBodies \cup { OkBody(ProfileNovice, GoalNovice), OkBody(ProfileSenior, GoalSenior) }

-----------------------------------------------------------------------------
(* POST /api/evaluate: one request per slot, evaluate running step by step *)

Reqs == 1..NumReq

Unparsed == Body("unparsed", FALSE, FALSE, FALSE, ProfileNovice, GoalNovice)

NoLocals ==
  [ input |-> Unparsed,
    experienceScore |-> R(0), skillScore |-> R(0),
    educationScore |-> R(0), timelineScore |-> R(0),
    overallScore |-> R(0),
    probabilityBands |-> << >>, warnings |-> << >>,
    skillGaps |-> << >>, recommendations |-> << >> ]

NoResponse == [status |-> 0, json |-> [error |-> ""]]

BadRequest == [status |-> 400, json |-> [error |-> "Invalid input: profile and goal are required"]]

ServerError(details) ==
  [status |-> 500, json |-> [error |-> "Failed to evaluate career goal", details |-> details]]

Ok(result) == [status |-> 200, json |-> result]

WellFormedInput(input) ==
  input.syntax = "object" /\ input.hasProfile /\ input.hasGoal /\ input.wellTyped

\* useState(null): no value, or one value
Null == << >>

Some(value) == << value >>

\* The page before any submission: useState(null), useState(false), useState(null)
FormIdle == [ result |-> Null, loading |-> FALSE, error |-> Null, pc |-> "idle", outcome |-> "none" ]

Init ==
  /\ form = FormIdle
  /\ scenarios = ScenarioTable
  /\ now = 0
  /\ body \in [Reqs -> SmallBodies]
  /\ pc = [r \in Reqs |-> "start"]
  /\ loc = [r \in Reqs |-> NoLocals]
  /\ resp = [r \in Reqs |-> NoResponse]

\* The clock read by new Date()
Tick ==
  /\ now < MaxClock
  /\ now' = now + 1
  /\ UNCHANGED <<form, scenarios, body, pc, loc, resp>>

Respond(r, response) ==
  /\ resp' = [resp EXCEPT ![r] = response]
  /\ pc' = [pc EXCEPT ![r] = "done"]

\* await request.json(): a body that is not JSON throws inside the try block
ParseRequest(r) ==
  /\ pc[r] = "start"
  /\ IF body[r].syntax = "malformed"
     THEN /\ Respond(r, ServerError("Unexpected token in JSON"))
          /\ UNCHANGED loc
     ELSE /\ loc' = [loc EXCEPT ![r].input = body[r]]
          /\ pc' = [pc EXCEPT ![r] = "parsed"]
          /\ UNCHANGED resp
  /\ UNCHANGED <<form, scenarios, now, body>>

\* if (!input.profile || !input.goal) ... ; new Evaluator()
ValidateInput(r) ==
  /\ pc[r] = "parsed"
  /\ IF loc[r].input.syntax = "null"
     THEN Respond(r, ServerError("Cannot read properties of null (reading 'profile')"))
     ELSE IF ~loc[r].input.hasProfile \/ ~loc[r].input.hasGoal
     THEN Respond(r, BadRequest)
     ELSE /\ pc' = [pc EXCEPT ![r] = "step1"]
          /\ UNCHANGED resp
  /\ UNCHANGED <<form, scenarios, now, body, loc>>

\* Step 1: the four component scores
Step1Scores(r) ==
  /\ pc[r] = "step1"
  /\ IF ~loc[r].input.wellTyped
     THEN /\ Respond(r, ServerError("Cannot read properties of undefined (reading 'relevantYears')"))
          /\ UNCHANGED loc
     ELSE LET profile == loc[r].input.profile
              goal == loc[r].input.goal
          IN /\ loc' = [loc EXCEPT ![r].experienceScore = calculateExperienceScore(profile, goal),
                                   ![r].skillScore = calculateSkillScore(profile, goal),
                                   ![r].educationScore = calculateEducationScore(profile, goal),
                                   ![r].timelineScore = calculateTimelineScore(profile, goal)]
             /\ pc' = [pc EXCEPT ![r] = "step2"]
             /\ UNCHANGED resp
  /\ UNCHANGED <<form, scenarios, now, body>>

\* Step 2 with the component scores kept in a field shared by all calls: a
\* call in flight reads the scores another call has left there
Step2OverallShared(r) ==
  LET others == { o \in Reqs : o # r /\ pc[o] \in { "step2", "step3", "step4", "step5",
                                                   "step6", "step7", "done" }
                                     /\ WellFormedInput(loc[o].input) }
      q == IF others = {} THEN r ELSE CHOOSE o \in others : TRUE
  IN /\ pc[r] = "step2"
     /\ loc' = [loc EXCEPT ![r].overallScore =
                  calculateOverallScore(loc[q].experienceScore, loc[q].skillScore,
                                        loc[q].educationScore, loc[q].timelineScore)]
     /\ pc' = [pc EXCEPT ![r] = "step3"]
     /\ UNCHANGED <<form, scenarios, now, body, resp>>

\* Step 2: the weighted overall score
Step2Overall(r) ==
  /\ pc[r] = "step2"
  /\ loc' = [loc EXCEPT ![r].overallScore =
               calculateOverallScore(loc[r].experienceScore, loc[r].skillScore,
                                     loc[r].educationScore, loc[r].timelineScore)]
  /\ pc' = [pc EXCEPT ![r] = "step3"]
  /\ UNCHANGED <<form, scenarios, now, body, resp>>

\* Step 3: the probability bands
Step3Bands(r) ==
  /\ pc[r] = "step3"
  /\ loc' = [loc EXCEPT ![r].probabilityBands =
               calculateProbabilityBands(loc[r].input.profile, loc[r].input.goal,
                                         loc[r].experienceScore, loc[r].skillScore,
                                         loc[r].educationScore, loc[r].timelineScore,
                                         loc[r].overallScore)]
  /\ pc' = [pc EXCEPT ![r] = "step4"]
  /\ UNCHANGED <<form, scenarios, now, body, resp>>

\* Step 4: the warnings, read against the shared scenario table
Step4Warnings(r) ==
  /\ pc[r] = "step4"
  /\ loc' = [loc EXCEPT ![r].warnings =
               generateWarnings(scenarios, loc[r].input.profile, loc[r].input.goal,
                                [ experienceScore |-> loc[r].experienceScore,
                                  skillScore |-> loc[r].skillScore,
                                  educationScore |-> loc[r].educationScore,
                                  timelineScore |-> loc[r].timelineScore ],
                                loc[r].probabilityBands)]
  /\ pc' = [pc EXCEPT ![r] = "step5"]
  /\ UNCHANGED <<form, scenarios, now, body, resp>>

\* Step 5: the skill gaps
Step5SkillGaps(r) ==
  /\ pc[r] = "step5"
  /\ loc' = [loc EXCEPT ![r].skillGaps =
               identifySkillGaps(loc[r].input.profile, loc[r].input.goal)]
  /\ pc' = [pc EXCEPT ![r] = "step6"]
  /\ UNCHANGED <<form, scenarios, now, body, resp>>

\* Step 6: the recommendations
Step6Recommendations(r) ==
  /\ pc[r] = "step6"
  /\ loc' = [loc EXCEPT ![r].recommendations =
               generateRecommendations(loc[r].input.profile, loc[r].input.goal,
                                       loc[r].experienceScore, loc[r].skillScore,
                                       loc[r].educationScore, loc[r].timelineScore,
                                       loc[r].skillGaps)]
  /\ pc' = [pc EXCEPT ![r] = "step7"]
  /\ UNCHANGED <<form, scenarios, now, body, resp>>

\* Step 7 with the overall score perturbed by the time of the call
Step7ResultClockSeeded(r) ==
  /\ pc[r] = "step7"
  /\ Respond(r, Ok([ overallScore |-> Add(loc[r].overallScore, R(now % 2)),
                     probabilityBands |-> loc[r].probabilityBands,
                     warnings |-> loc[r].warnings,
                     skillGaps |-> loc[r].skillGaps,
                     recommendations |-> loc[r].recommendations,
                     scoreBreakdown |-> [ experienceScore |-> loc[r].experienceScore,
                                          skillScore |-> loc[r].skillScore,
                                          educationScore |-> loc[r].educationScore,
                                          timelineScore |-> loc[r].timelineScore ],
                     metadata |-> [ evaluatedAt |-> now, engineVersion |-> "0.1.0" ] ]))
  /\ UNCHANGED <<form, scenarios, now, body, loc>>

\* Step 7: the result object, stamped with the current time, returned as JSON
Step7Result(r) ==
  /\ pc[r] = "step7"
  /\ Respond(r, Ok([ overallScore |-> loc[r].overallScore,
                     probabilityBands |-> loc[r].probabilityBands,
                     warnings |-> loc[r].warnings,
                     skillGaps |-> loc[r].skillGaps,
                     recommendations |-> loc[r].recommendations,
                     scoreBreakdown |-> [ experienceScore |-> loc[r].experienceScore,
                                          skillScore |-> loc[r].skillScore,
                                          educationScore |-> loc[r].educationScore,
                                          timelineScore |-> loc[r].timelineScore ],
                     metadata |-> [ evaluatedAt |-> now, engineVersion |-> "0.1.0" ] ]))
  /\ UNCHANGED <<form, scenarios, now, body, loc>>

\* One step of the handler of request r
Handle(r) ==
  \/ ParseRequest(r)
  \/ ValidateInput(r)
  \/ Step1Scores(r)
  \/ Step2Overall(r)
  \/ Step3Bands(r)
  \/ Step4Warnings(r)
  \/ Step5SkillGaps(r)
  \/ Step6Recommendations(r)
  \/ Step7Result(r)

Next ==
  \/ Tick
  \/ \E r \in Reqs : Handle(r)

Spec == Init /\ [][Next]_vars

-----------------------------------------------------------------------------
(* The handler as a function of the body, and one request running alone over
   a wide range of inputs *)

POSTResponse(table, b, time) ==
  IF b.syntax = "malformed" THEN ServerError("Unexpected token in JSON")
  ELSE IF b.syntax = "null"
  THEN ServerError("Cannot read properties of null (reading 'profile')")
  ELSE IF ~b.hasProfile \/ ~b.hasGoal THEN BadRequest
  ELSE IF ~b.wellTyped
  THEN ServerError("Cannot read properties of undefined (reading 'relevantYears')")
  ELSE Ok(evaluate(table, b.profile, b.goal, time))

SkillNames ==
  << "Python", "System Design", "Problem Solving", "Data Structures and Algorithms",
     "Statistics", "Academic Writing", "Java", "Communication", "SQL", "Leadership",
     "Git", "Docker" >>

\* Skills named by position, with the given proficiencies
SkillsOf(proficiencies) ==
  [i \in 1..Len(proficiencies) |-> Skill(SkillNames[i], proficiencies[i])]

Repeat(n, p) == [i \in 1..n |-> p]

\* Every list of proficiencies up to the bound
ShortProficiencyLists == UNION { [1..n -> 0..5] : n \in 0..MaxSkillLen }

\* Chosen longer lists
LongProficiencyLists ==
  { <<1, 1, 1>>, <<3, 4, 5>>, <<2, 3, 3, 4>>, <<0, 2, 5>>, <<0, 0, 0, 2>> }
  \cup { Repeat(n, p) : n \in {7, 10}, p \in {0, 2, 5} }

ProficiencyLists == ShortProficiencyLists \cup LongProficiencyLists

\* Years of experience in the half-year steps of the form, and fifty years
RelevantYearsSet == { Rat(k, 2) : k \in 0..MaxYears2 } \cup { R(50) }

TotalYearsSet == { R(0), Half, R(4), R(50) }

Roles == { "Software Engineer", "Senior Software Engineer", "Junior Developer",
           "Engineering Manager" }

TargetMonthsSet == { 1, 6, 10, 12, 24, 39, 60, 120 }

\* Experience and role vary
ExperienceBodies ==
  { OkBody(MakeProfile("bachelors", "", totalYears, relevantYears, SkillsOf(plan[1]),
                       "employed", NoLocation),
           MakeGoal(role, "Technology", plan[2], NoSalary, NoRequirements)) :
      relevantYears \in RelevantYearsSet,
      totalYears \in TotalYearsSet,
      role \in Roles,
      plan \in { << << >>, 6 >>, << <<3, 4, 5>>, 60 >> } }

TimelineBody(relevantYears, role, ps, months) ==
  OkBody(MakeProfile("bachelors", "", relevantYears, relevantYears, SkillsOf(ps),
                     "student", NoLocation),
         MakeGoal(role, "Technology", months, NoSalary, NoRequirements))

\* Skills and target timeline vary
TimelineBodies ==
  { TimelineBody(relevantYears, role, ps, months) :
      relevantYears \in { R(0), Rat(5, 2), R(7) },
      role \in { "Software Engineer", "Senior Software Engineer" },
      ps \in LongProficiencyLists,
      months \in TargetMonthsSet }
  \cup { TimelineBody(R(0), "Software Engineer", ps, months) :
           ps \in ShortProficiencyLists, months \in { 6, 24 } }

GoalKinds ==
  { <<"Software Engineer", "Technology">>,
    <<"Machine Learning Engineer", "Technology">>,
    <<"Nurse", "Healthcare">>,
    <<"Financial Analyst", "Finance">>,
    <<"Machine Learning Engineer", "Artificial Intelligence">>,
    <<"Research Scientist", "Academia / Research">>,
    <<"Data Analyst", "TECHNOLOGY">>,
    <<"Professor", "academia / research">>,
    <<"", "">> }

\* One goal for each scenario, one whose role and industry name different
\* scenarios, one in another letter case and one without a scenario
MainGoalKinds ==
  { <<"Software Engineer", "Technology">>,
    <<"Machine Learning Engineer", "Technology">>,
    <<"Machine Learning Engineer", "Artificial Intelligence">>,
    <<"Research Scientist", "Academia / Research">>,
    <<"Data Analyst", "TECHNOLOGY">>,
    <<"Nurse", "Healthcare">> }

\* Education, field of study and industry vary
EducationBodies ==
  { OkBody(MakeProfile(level, field, relevantYears, relevantYears, SkillsOf(<<3, 4, 5>>),
                       "employed", NoLocation),
           MakeGoal(kind[1], kind[2], months, NoSalary, NoRequirements)) :
      level \in { "doctorate", "masters", "bachelors", "associates", "high_school", "none" },
      field \in { "", "Computer Science", "Finance" },
      kind \in GoalKinds,
      relevantYears \in { R(0), R(3) },
      months \in { 24 } }

LocationKinds ==
  { <<NoLocation, NoRequirements>>,
    <<[present |-> TRUE, isFlexible |-> FALSE],
      [present |-> TRUE, remoteOnly |-> FALSE, targetLocation |-> "Berlin"]>>,
    <<[present |-> TRUE, isFlexible |-> TRUE],
      [present |-> TRUE, remoteOnly |-> TRUE, targetLocation |-> "Berlin"]>>,
    <<NoLocation, [present |-> TRUE, remoteOnly |-> FALSE, targetLocation |-> ""]>>,
    <<NoLocation, [present |-> TRUE, remoteOnly |-> TRUE, targetLocation |-> Undefined]>> }

\* Employment, location, requirements and salary expectation vary
SituationBodies ==
  { OkBody(MakeProfile("bachelors", "", relevantYears, relevantYears, SkillsOf(plan[1]),
                       employmentStatus, where[1]),
           MakeGoal(kind[1], kind[2], plan[2], salary, where[2])) :
      employmentStatus \in { "employed", "unemployed", "student", "self_employed" },
      where \in LocationKinds,
      salary \in { NoSalary, [present |-> TRUE, desired |-> 400000, currency |-> "USD"] },
      kind \in MainGoalKinds,
      relevantYears \in { R(0), R(3) },
      plan \in { << <<3, 4, 5>>, 24 >>, << <<3, 4, 5>>, 6 >>, << Repeat(7, 2), 6 >> } }

\* The two extremes named by the specification
ExtremeBodies ==
  { OkBody(MakeProfile("none", "", R(0), R(0), << >>, "unemployed", NoLocation),
           MakeGoal("Software Engineer", "Technology", 1, NoSalary, NoRequirements)),
    OkBody(MakeProfile("doctorate", "Computer Science", R(50), R(50),
                       SkillsOf(Repeat(10, 5)), "employed", NoLocation),
           MakeGoal("Software Engineer", "Technology", 120, NoSalary, NoRequirements)) }

\* Example 1 of the specification in every situation it leaves open
NoviceBodies ==
  { OkBody(MakeProfile("none", "", R(0), R(0), << >>, employmentStatus, where[1]),
           MakeGoal("Software Engineer", targetIndustry, 6, salary, where[2])) :
      employmentStatus \in { "employed", "unemployed", "student", "self_employed" },
      where \in LocationKinds,
      salary \in { NoSalary, [present |-> TRUE, desired |-> 400000, currency |-> "USD"] },
      targetIndustry \in { "Technology", "Finance", "" } }

\* Skill lists with repeated names, names in another letter case, names that
\* are part of a requirement's name and names no requirement mentions
NamedSkillLists ==
  { << Skill("Python", 1), Skill("Java", 5), Skill("System Design", 3) >>,
    << Skill("Python", 1), Skill("Python", 5), Skill("Java", 2) >>,
    << Skill("python", 2), Skill("PROBLEM SOLVING", 4), Skill("Python", 0),
       Skill("Cooking", 0) >>,
    << Skill("Java", 5), Skill("Python", 1), Skill("System Design", 1),
       Skill("Problem Solving", 2), Skill("Data Structures and Algorithms", 4) >>,
    << Skill("Cooking", 1), Skill("Cooking", 1) >>,
    << Skill("Research", 3), Skill("Writing", 1), Skill("Statistical Analysis", 5) >>,
    << Skill("", 2), Skill("Python", 4), Skill("Python", 3) >> }

\* Named skills against every kind of goal
SkillNameBodies ==
  { OkBody(MakeProfile("bachelors", "", R(1), R(1), skills, "student", NoLocation),
           MakeGoal(kind[1], kind[2], 12, NoSalary, NoRequirements)) :
      skills \in NamedSkillLists, kind \in GoalKinds }

\* Twelve skills to learn from nothing, for every employment status
OverloadedBodies ==
  { OkBody(MakeProfile("bachelors", "", R(0), R(0), SkillsOf(Repeat(12, 0)),
                       employmentStatus, NoLocation),
           MakeGoal("Software Engineer", "Technology", 12, NoSalary, NoRequirements)) :
      employmentStatus \in { "employed", "unemployed", "student", "self_employed" } }

\* Role titles with one keyword, with several and with none, in any letter case
KeywordRoles ==
  { "Senior Manager", "Associate Director", "Head of Engineering", "Team Lead",
    "Entry Level Analyst", "PRINCIPAL DIRECTOR", "Director", "junior manager",
    "Designer" }

KeywordBodies ==
  { OkBody(MakeProfile("bachelors", "", relevantYears, relevantYears, SkillsOf(<<3, 4, 5>>),
                       "employed", NoLocation),
           MakeGoal(role, "Technology", 24, NoSalary, NoRequirements)) :
      role \in KeywordRoles,
      relevantYears \in { R(0), R(1), R(3), R(5), R(8) } }

WideBodies ==
  OverloadedBodies \cup KeywordBodies \cup ExperienceBodies \cup TimelineBodies \cup EducationBodies \cup SituationBodies
  \cup NoviceBodies \cup ExtremeBodies \cup SkillNameBodies \cup SmallBodies

InitEval ==
  /\ form = FormIdle
  /\ scenarios = ScenarioTable
  /\ now = 0
  /\ \E b \in WideBodies : body = [r \in Reqs |-> IF r = 1 THEN b ELSE MalformedBody]
  /\ pc = [r \in Reqs |-> IF r = 1 THEN "start" ELSE "closed"]
  /\ loc = [r \in Reqs |-> NoLocals]
  /\ resp = [r \in Reqs |-> NoResponse]

NextEval == \E r \in Reqs : Handle(r)

SpecEval == InitEval /\ [][NextEval]_vars

-----------------------------------------------------------------------------
(* Properties *)

-----------------------------------------------------------------------------
(* The page: Home.handleSubmit against POST /api/evaluate on slot 1 *)

\* What the form builds: no field of study, location, salary or requirements,
\* every skill at proficiency 2
FormBodies ==
  { OkBody(MakeProfile(level, "", relevantYears, relevantYears, SkillsOf(ps), "employed", NoLocation),
           MakeGoal("Software Engineer", "Technology", 12, NoSalary, NoRequirements)) :
      level \in { "bachelors", "none" },
      relevantYears \in { R(0), R(3) },
      ps \in { << >>, <<2, 2, 2>> } }

\* Bodies of responses that are not ok: the two this route sends, and one
\* without an error field
ErrorBodies ==
  { BadRequest.json, ServerError("Unknown error").json, [details |-> "Bad Gateway"] }

InitForm ==
  /\ form = FormIdle
  /\ scenarios = ScenarioTable
  /\ now = 0
  /\ body = [r \in Reqs |-> MalformedBody]
  /\ pc = [r \in Reqs |-> "closed"]
  /\ loc = [r \in Reqs |-> NoLocals]
  /\ resp = [r \in Reqs |-> NoResponse]

\* The form is on the page while there is no result; its button is enabled
\* while nothing loads. The handler runs up to await fetch(...).
\* Variant: the error of the previous submission is not cleared
handleSubmitKeepError(b) ==
  /\ form.result = Null
  /\ ~form.loading
  /\ form' = [ result |-> Null, loading |-> TRUE, error |-> form.error, pc |-> "fetching",
               outcome |-> "none" ]
  /\ body' = [body EXCEPT ![1] = b]
  /\ pc' = [pc EXCEPT ![1] = "start"]
  /\ loc' = [loc EXCEPT ![1] = NoLocals]
  /\ resp' = [resp EXCEPT ![1] = NoResponse]
  /\ UNCHANGED <<scenarios, now>>

handleSubmit(b) ==
  /\ form.result = Null
  /\ ~form.loading
  /\ form' = [ result |-> Null, loading |-> TRUE, error |-> Null, pc |-> "fetching",
               outcome |-> "none" ]
  /\ body' = [body EXCEPT ![1] = b]
  /\ pc' = [pc EXCEPT ![1] = "start"]
  /\ loc' = [loc EXCEPT ![1] = NoLocals]
  /\ resp' = [resp EXCEPT ![1] = NoResponse]
  /\ UNCHANGED <<scenarios, now>>

\* response.ok: setResult(await response.json())
ResponseOk ==
  /\ form.pc = "fetching"
  /\ pc[1] = "done"
  /\ resp[1].status = 200
  /\ form' = [form EXCEPT !.result = Some(resp[1].json), !.pc = "finally", !.outcome = "ok"]
  /\ UNCHANGED <<scenarios, now, body, pc, loc, resp>>

\* !response.ok: throw new Error(errorData.error || 'Evaluation failed'), caught
ResponseNotOk(errorData) ==
  /\ form.pc = "fetching"
  /\ LET message == IF "error" \in DOMAIN errorData /\ errorData.error # ""
                    THEN errorData.error ELSE "Evaluation failed"
     IN form' = [form EXCEPT !.error = Some(message), !.pc = "finally", !.outcome = "notOk"]
  /\ UNCHANGED <<scenarios, now, body, pc, loc, resp>>

\* fetch rejects, or response.json() throws on a body that is not JSON
FetchThrows(message) ==
  /\ form.pc = "fetching"
  /\ form' = [form EXCEPT !.error = Some(message), !.pc = "finally", !.outcome = "thrown"]
  /\ UNCHANGED <<scenarios, now, body, pc, loc, resp>>

\* finally { setLoading(false) }
Finally ==
  /\ form.pc = "finally"
  /\ form' = [form EXCEPT !.loading = FALSE, !.pc = "settled"]
  /\ UNCHANGED <<scenarios, now, body, pc, loc, resp>>

\* onClick={() => setResult(null)} of the button shown with a result; a click
\* is handled between tasks, never inside the continuation of handleSubmit
StartOver ==
  /\ form.pc = "settled"
  /\ form.result # Null
  /\ form' = [form EXCEPT !.result = Null, !.pc = "idle", !.outcome = "none"]
  /\ UNCHANGED <<scenarios, now, body, pc, loc, resp>>

NextForm ==
  \/ \E b \in FormBodies : handleSubmit(b)
  \/ Handle(1)
  \/ ResponseOk
  \/ \E errorData \in ErrorBodies : ResponseNotOk(errorData)
  \/ \E message \in { "Failed to fetch", "Unexpected token < in JSON at position 0" } :
       FetchThrows(message)
  \/ Finally
  \/ StartOver

\* The handler of the route moves on: a step of Handle(1), seen by its position
RouteMoves ==
  /\ pc[1] \notin { "closed", "done" }
  /\ \E position \in { "parsed", "step1", "step2", "step3", "step4", "step5", "step6",
                        "step7", "done" } :
       /\ position # pc[1]
       /\ pc' = [pc EXCEPT ![1] = position]

\* The route answers, the awaited promise settles and the finally clause runs
SpecForm ==
  /\ InitForm
  /\ [][NextForm]_vars
  /\ WF_pc(RouteMoves)
  /\ WF_vars(ResponseOk)
  /\ WF_vars(Finally)

Done(r) == pc[r] = "done"

Succeeded(r) == pc[r] = "done" /\ resp[r].status = 200

Result(r) == resp[r].json

InEvaluate(r) == pc[r] \in { "step1", "step2", "step3", "step4", "step5", "step6", "step7" }

WellFormed(b) == WellFormedInput(b)

\* A response with the evaluation timestamp blanked
WithoutTime(response) ==
  IF response.status = 200
  THEN [response EXCEPT !.json.metadata.evaluatedAt = 0]
  ELSE response

Flags(warnings) == { warnings[i].flag : i \in 1..Len(warnings) }

\* C1 -- Determinism: two evaluate calls on the same profile and goal and the
\* same scenario table return the same overallScore, scoreBreakdown,
\* probabilityBands, warnings, skillGaps and recommendations; only
\* metadata.evaluatedAt may differ.
C1_Determinism ==
  \A r1 \in Reqs : \A r2 \in Reqs :
    (Succeeded(r1) /\ Succeeded(r2) /\ body[r1] = body[r2]) =>
      /\ Result(r1).overallScore = Result(r2).overallScore
      /\ Result(r1).scoreBreakdown = Result(r2).scoreBreakdown
      /\ Result(r1).probabilityBands = Result(r2).probabilityBands
      /\ Result(r1).warnings = Result(r2).warnings
      /\ Result(r1).skillGaps = Result(r2).skillGaps
      /\ Result(r1).recommendations = Result(r2).recommendations

\* Two calls on the same input have returned, stamped at different times
C1_Witness ==
  \E r1 \in Reqs : \E r2 \in Reqs :
    /\ r1 # r2
    /\ Succeeded(r1) /\ Succeeded(r2)
    /\ body[r1] = body[r2]
    /\ Result(r1).metadata.evaluatedAt # Result(r2).metadata.evaluatedAt

\* What each body is answered when its request is the only one running
AloneResponse ==
  [b \in SmallBodies |-> WithoutTime(POSTResponse(ScenarioTable, b, 0))]

\* C9 -- Non-interference: however the steps of concurrent evaluate calls are
\* interleaved, each call returns what it returns when run alone, the shared
\* scenario table is never written, and no call writes its own input.
C9_NonInterference ==
  /\ scenarios = ScenarioTable
  /\ \A r \in Reqs :
       /\ (InEvaluate(r) \/ pc[r] = "parsed") => loc[r].input = body[r]
       /\ Done(r) => WithoutTime(resp[r]) = AloneResponse[body[r]]

\* One call has returned its result while another, on a different input, is
\* in the middle of evaluate
C9_Witness ==
  \E r1 \in Reqs : \E r2 \in Reqs :
    /\ r1 # r2
    /\ Succeeded(r1)
    /\ pc[r2] \in { "step3", "step4", "step5", "step6", "step7" }
    /\ WellFormed(body[r2])
    /\ body[r1].profile # body[r2].profile

\* C10 -- HTTP error mapping: malformed JSON, or a parsed body without profile
\* or without goal, is answered 400 with an error body; 500 is returned only
\* for an exception raised during evaluation; a body with profile and goal
\* that evaluates without exception is answered 200 with the result.
C10_HttpErrorMapping ==
  \A r \in Reqs :
    Done(r) =>
      /\ (body[r].syntax # "object" \/ ~body[r].hasProfile \/ ~body[r].hasGoal) =>
           (resp[r].status = 400 /\ "error" \in DOMAIN resp[r].json)
      /\ resp[r].status = 500 =>
           (body[r].syntax = "object" /\ body[r].hasProfile /\ body[r].hasGoal
            /\ ~body[r].wellTyped)
      /\ WellFormed(body[r]) =>
           (resp[r].status = 200 /\ "overallScore" \in DOMAIN resp[r].json)


InRange(x) == Le(R(0), x) /\ Le(x, R(100))

\* C2 -- Score bounds: for every valid input the four component scores and
\* overallScore lie in [0,100], the two extremes of the specification included.
C2_ScoreBounds ==
  \A r \in Reqs :
    Succeeded(r) =>
      /\ InRange(Result(r).scoreBreakdown.experienceScore)
      /\ InRange(Result(r).scoreBreakdown.skillScore)
      /\ InRange(Result(r).scoreBreakdown.educationScore)
      /\ InRange(Result(r).scoreBreakdown.timelineScore)
      /\ InRange(Result(r).overallScore)

\* The upper extreme has been evaluated: fifty years, ten skills at
\* proficiency 5, a doctorate, 120 months
C2_Witness ==
  \E r \in Reqs :
    /\ Succeeded(r)
    /\ body[r].profile.experience.relevantYears = R(50)
    /\ body[r].profile.skills = SkillsOf(Repeat(10, 5))
    /\ body[r].profile.education.level = "doctorate"
    /\ body[r].goal.timeline.targetMonths = 120
    /\ Result(r).scoreBreakdown.skillScore = R(100)

\* C3 -- Monotonicity: of two inputs that differ only in relevantYears, the one
\* with more relevant years never has the smaller experienceScore, the step
\* from zero to a small positive relevantYears with totalYears > 0 included.
C3_ExperienceMonotone ==
  \A r \in Reqs :
    Succeeded(r) =>
      \A more \in RelevantYearsSet :
        Ge(more, body[r].profile.experience.relevantYears) =>
          Ge(calculateExperienceScore(
               [body[r].profile EXCEPT !.experience.relevantYears = more], body[r].goal),
             Result(r).scoreBreakdown.experienceScore)

BandsOf(r) == Result(r).probabilityBands

\* C4 -- Band timelines are ordered and floored: best <= average <= worst
\* estimatedTimelineMonths, with best >= 1, average >= 2 and worst >= 3.
C4_BandTimelines ==
  \A r \in Reqs :
    Succeeded(r) =>
      /\ Le(BandsOf(r).best.estimatedTimelineMonths, BandsOf(r).average.estimatedTimelineMonths)
      /\ Le(BandsOf(r).average.estimatedTimelineMonths, BandsOf(r).worst.estimatedTimelineMonths)
      /\ Ge(BandsOf(r).best.estimatedTimelineMonths, R(1))
      /\ Ge(BandsOf(r).average.estimatedTimelineMonths, R(2))
      /\ Ge(BandsOf(r).worst.estimatedTimelineMonths, R(3))

\* A profile with no gap at all: the bands sit on their floors, best = average
C4_Witness ==
  \E r \in Reqs :
    /\ Succeeded(r)
    /\ BandsOf(r).best.estimatedTimelineMonths = R(2)
    /\ BandsOf(r).average.estimatedTimelineMonths = R(2)
    /\ BandsOf(r).worst.estimatedTimelineMonths = R(3)

\* Hours of a band recomputed from the returned gaps and experience score
HoursRule(r, multiplier) ==
  LET base == Add(Add(R(2), Mul(R(Len(Result(r).skillGaps)), Half)),
                  IF Lt(Result(r).scoreBreakdown.experienceScore, R(50)) THEN R(1) ELSE R(0))
      tenths == Mul(Mul(base, multiplier), R(10))
      rounded == R((2 * tenths[1] + tenths[2]) \div (2 * tenths[2]))
  IN Div(rounded, R(10))

\* C5 -- Hours clamp: in each band requiredDailyHours is in [0,8], however many
\* skill gaps there are; it is 2 + 0.5 per gap + 1 if experienceScore < 50,
\* times 0.8 / 1.0 / 1.3, rounded to one decimal, then capped at 8.
C5_HoursClamp ==
  \A r \in Reqs :
    Succeeded(r) =>
      /\ \A band \in { "best", "average", "worst" } :
           /\ Le(R(0), BandsOf(r)[band].requiredDailyHours)
           /\ Le(BandsOf(r)[band].requiredDailyHours, R(8))
      /\ BandsOf(r).best.requiredDailyHours =
           (IF Gt(HoursRule(r, Rat(8, 10)), R(8)) THEN R(8) ELSE HoursRule(r, Rat(8, 10)))
      /\ BandsOf(r).average.requiredDailyHours =
           (IF Gt(HoursRule(r, R(1)), R(8)) THEN R(8) ELSE HoursRule(r, R(1)))
      /\ BandsOf(r).worst.requiredDailyHours =
           (IF Gt(HoursRule(r, Rat(13, 10)), R(8)) THEN R(8) ELSE HoursRule(r, Rat(13, 10)))

\* So many gaps that the worst band's hours exceed 8 before the cap
C5_Witness ==
  \E r \in Reqs :
    /\ Succeeded(r)
    /\ Len(Result(r).skillGaps) >= 7
    /\ Gt(HoursRule(r, Rat(13, 10)), R(8))
    /\ BandsOf(r).worst.requiredDailyHours = R(8)

\* The weighted sum of the four scores of a result's scoreBreakdown
WeightedSum(r) ==
  LET b == Result(r).scoreBreakdown
  IN Rat(3 * b.experienceScore[1] * b.skillScore[2] * b.educationScore[2] * b.timelineScore[2]
         + 3 * b.skillScore[1] * b.experienceScore[2] * b.educationScore[2] * b.timelineScore[2]
         + 2 * b.educationScore[1] * b.experienceScore[2] * b.skillScore[2] * b.timelineScore[2]
         + 2 * b.timelineScore[1] * b.experienceScore[2] * b.skillScore[2] * b.educationScore[2],
         10 * b.experienceScore[2] * b.skillScore[2] * b.educationScore[2] * b.timelineScore[2])

IsExample1(b) ==
  /\ WellFormed(b)
  /\ b.profile.skills = << >>
  /\ b.profile.experience.relevantYears = R(0)
  /\ b.profile.experience.totalYears = R(0)
  /\ b.profile.education.level = "none"
  /\ b.profile.education.field = ""
  /\ b.goal.targetRole = "Software Engineer"
  /\ b.goal.timeline.targetMonths = 6

\* C7 -- Example 1: no skills, no experience, education 'none', target role
\* "Software Engineer", six months: experience, skill and education scores are
\* 0, overallScore <= 20, and the warnings contain timeline_unrealistic,
\* insufficient_experience, skill_gap_detected and education_requirement_mismatch.
C7_Example1 ==
  \A r \in Reqs :
    (Succeeded(r) /\ IsExample1(body[r])) =>
      /\ Result(r).scoreBreakdown.experienceScore = R(0)
      /\ Result(r).scoreBreakdown.skillScore = R(0)
      /\ Result(r).scoreBreakdown.educationScore = R(0)
      /\ Le(Result(r).overallScore, R(20))
      /\ { "timeline_unrealistic", "insufficient_experience", "skill_gap_detected",
           "education_requirement_mismatch" } \subseteq Flags(Result(r).warnings)

\* Example 1 has been evaluated for a goal outside every scenario's industry
C7_Witness ==
  \E r \in Reqs :
    /\ Succeeded(r)
    /\ IsExample1(body[r])
    /\ body[r].goal.targetIndustry = "Finance"

\* C8 -- Every value of scoreBreakdown is an integer for every valid input,
\* relevantYears and totalYears in half-year steps included.
C8_IntegerScores ==
  \A r \in Reqs :
    Succeeded(r) =>
      /\ IsInteger(Result(r).scoreBreakdown.experienceScore)
      /\ IsInteger(Result(r).scoreBreakdown.skillScore)
      /\ IsInteger(Result(r).scoreBreakdown.educationScore)
      /\ IsInteger(Result(r).scoreBreakdown.timelineScore)

Likelihoods(bands) ==
  <<bands.best.likelihood, bands.average.likelihood, bands.worst.likelihood>>

\* The likelihood table of the three bands for an overall score
LikelihoodTable(overallScore) ==
  << IF Ge(overallScore, R(80)) THEN R(30) ELSE IF Ge(overallScore, R(50)) THEN R(20) ELSE R(10),
     R(50),
     IF Lt(overallScore, R(50)) THEN R(40) ELSE IF Lt(overallScore, R(80)) THEN R(30) ELSE R(20) >>

SumOf(triple) == Add(Add(triple[1], triple[2]), triple[3])

\* C11 (as stated) -- Band likelihoods follow the table 30/20/10, 50, 40/30/20
\* and for at least one overallScore in 0..100 the three do not sum to 100.
C11_LikelihoodsNotNormalised ==
  /\ \A r \in Reqs : Succeeded(r) => Likelihoods(BandsOf(r)) = LikelihoodTable(Result(r).overallScore)
  /\ \E score \in 0..100 :
       SumOf(<<calculateLikelihood(R(score), "best"), calculateLikelihood(R(score), "average"),
               calculateLikelihood(R(score), "worst")>>) # R(100)

\* The likelihoods the program computes for every whole overallScore
LikelihoodsByScore ==
  [score \in 0..100 |->
     <<calculateLikelihood(R(score), "best"), calculateLikelihood(R(score), "average"),
       calculateLikelihood(R(score), "worst")>>]

\* C11 (amended) -- Band likelihoods follow the table: average is 50 for every
\* overallScore, best is 30/20/10 for >= 80 / >= 50 / < 50, worst is 40/30/20
\* for < 50 / < 80 / >= 80; the three sum to exactly 100 for every overallScore
\* in 0..100 and in every returned result.
C11_LikelihoodTable ==
  /\ \A r \in Reqs :
       Succeeded(r) =>
         /\ Likelihoods(BandsOf(r)) = LikelihoodTable(Result(r).overallScore)
         /\ SumOf(Likelihoods(BandsOf(r))) = R(100)
  /\ \A score \in 0..100 :
       /\ LikelihoodsByScore[score] = LikelihoodTable(R(score))
       /\ SumOf(LikelihoodsByScore[score]) = R(100)

\* A result in the top range of the table: best 30, average 50, worst 20
C11_Witness ==
  \E r \in Reqs :
    /\ Succeeded(r)
    /\ Ge(Result(r).overallScore, R(80))
    /\ Likelihoods(BandsOf(r)) = <<R(30), R(50), R(20)>>

\* Years of relevant experience a role title asks for, by its seniority keyword
RoleRequiredYears ==
  [ role \in { "Software Engineer", "Machine Learning Engineer", "Nurse",
               "Financial Analyst", "", "Junior Developer",
               "Research Scientist", "Data Analyst", "Professor",
               "Senior Software Engineer", "Senior Software Development Engineer",
               "Engineering Manager" } |->
      CASE role \in { "Senior Software Engineer", "Senior Software Development Engineer" } -> R(5)
        [] role = "Junior Developer" -> R(1)
        [] role = "Engineering Manager" -> R(7)
        [] OTHER -> R(3) ]

\* The four-branch rule on relevant years r, total years t and required years
ExperienceRule(r, t, required) ==
  IF Ge(r, required)
  THEN LET bonus == Mul(Sub(r, required), R(5))
           capped == IF Lt(bonus, R(20)) THEN bonus ELSE R(20)
       IN IF Lt(Add(R(80), capped), R(100)) THEN Add(R(80), capped) ELSE R(100)
  ELSE IF Ge(r, Div(required, R(2)))
  THEN MathRound(Add(R(40), Mul(Sub(Div(r, required), Half), R(80))))
  ELSE IF Gt(r, R(0))
  THEN MathRound(Mul(Div(r, Div(required, R(2))), R(40)))
  ELSE IF Gt(t, R(0))
  THEN (IF Lt(Mul(t, R(5)), R(20)) THEN Mul(t, R(5)) ELSE R(20))
  ELSE R(0)

MinimumRealisticMonths(r) ==
  LET experience == body[r].profile.experience
      missingYears == Sub(RoleRequiredYears[body[r].goal.targetRole], experience.relevantYears)
      gaps == Result(r).skillGaps
      gapMonths == [i \in 1..Len(gaps) |-> R(gaps[i].estimatedTimeToAcquireMonths)]
      SumTo[i \in 0..Len(gaps)] == IF i = 0 THEN R(0) ELSE Add(SumTo[i - 1], gapMonths[i])
      months == Add(Add(IF Gt(missingYears, R(0)) THEN Mul(missingYears, R(12)) ELSE R(0),
                        SumTo[Len(gaps)]),
                    IF Lt(experience.relevantYears, R(1)) THEN R(6) ELSE R(0))
  IN IF Lt(months, R(2)) THEN R(2) ELSE months

\* The four-branch rule on the target months and the minimum realistic months
TimelineRule(target, min) ==
  IF Ge(target, Mul(Rat(3, 2), min)) THEN R(100)
  ELSE IF Ge(target, min)
  THEN MathRound(Add(R(70), Mul(Sub(Div(target, min), R(1)), R(20))))
  ELSE IF Ge(target, Mul(Rat(7, 10), min))
  THEN MathRound(Add(R(40), Mul(Sub(Div(target, min), Rat(7, 10)), R(100))))
  ELSE MathRound(Mul(Div(target, min), R(57)))

ScenarioMatches(scenario, b) ==
  \/ includes(toLowerCase(scenario.targetRole), toLowerCase(b.goal.targetRole))
  \/ includes(toLowerCase(b.goal.targetRole), toLowerCase(scenario.targetRole))
  \/ /\ toLowerCase(scenario.targetIndustry) = toLowerCase(b.goal.targetIndustry)
     /\ Le(R(scenario.minExperienceYears), Add(b.profile.experience.relevantYears, R(2)))

\* The position in the table of the first scenario matched, 0 if there is none
MatchedIndex(b) ==
  LET matching == { i \in 1..Len(ScenarioTable) : ScenarioMatches(ScenarioTable[i], b) }
  IN IF matching = {} THEN 0
     ELSE CHOOSE i \in matching : \A j \in matching : i <= j

HasContext(w, key) == "context" \in DOMAIN w /\ key \in DOMAIN w.context

\* The warnings of the expectation check: they alone carry a scenario name
\* next to a timeline or a salary comparison
ExpectationWarnings(warnings) ==
  SelectSeq(warnings, LAMBDA w : HasContext(w, "percentageFaster") \/ HasContext(w, "percentageOver"))

\* C14 -- When the matched scenario's averageCaseMonths is avg and targetMonths
\* is user < avg * 0.7, the expectation check emits a timeline_unrealistic
\* warning of severity 3 whose percentageFaster is round((avg - user) / avg * 100),
\* stated in the message followed by '%'; avg = 18 and user = 6 give 67.
C14_PercentageFaster ==
  \A r \in Reqs :
    (Succeeded(r) /\ MatchedIndex(body[r]) # 0) =>
      LET avg == ScenarioTable[MatchedIndex(body[r])].timelineRanges.averageCaseMonths
          user == body[r].goal.timeline.targetMonths
          percentage == (2 * (avg - user) * 100 + avg) \div (2 * avg)
          emitted == ExpectationWarnings(Result(r).warnings)
      IN (10 * user < 7 * avg) =>
           /\ Len(emitted) = 1
           /\ emitted[1].flag = "timeline_unrealistic"
           /\ emitted[1].severity = 3
           /\ emitted[1].context.percentageFaster = R(percentage)
           /\ includes(emitted[1].message, " is " \o ToString(percentage) \o "% shorter than")
           /\ (avg = 18 /\ user = 6) => emitted[1].context.percentageFaster = R(67)

\* A goal matched with the scenario of 18 months, aimed at in 6: 67%
C14_Witness ==
  \E r \in Reqs :
    /\ Succeeded(r)
    /\ MatchedIndex(body[r]) # 0
    /\ ScenarioTable[MatchedIndex(body[r])].timelineRanges.averageCaseMonths = 18
    /\ body[r].goal.timeline.targetMonths = 6
    /\ Len(ExpectationWarnings(Result(r).warnings)) = 1
    /\ includes(ExpectationWarnings(Result(r).warnings)[1].message, "67%")

\* The scenario names the warnings of a result refer to
ScenarioNames(warnings) ==
  { warnings[i].context.scenarioName :
      i \in { j \in 1..Len(warnings) : HasContext(warnings[j], "scenarioName") } }

\* The warnings of the skill-mismatch check against a scenario
ScenarioSkillWarnings(warnings) ==
  SelectSeq(warnings, LAMBDA w : HasContext(w, "missingSkills") \/ HasContext(w, "lowProficiencySkills"))

\* C15 -- Scenario matching is first-match-wins in table order: the scenario
\* the expectation check and the skill-mismatch check refer to is the first
\* table entry matched by the goal and the profile, a later entry only if every
\* earlier one fails the predicate, and both checks refer to the same scenario.
C15_FirstMatchWins ==
  \A r \in Reqs :
    Succeeded(r) =>
      LET found == MatchedIndex(body[r])
          warnings == Result(r).warnings
      IN /\ found = 0 => ScenarioNames(warnings) = {}
         /\ found # 0 =>
              /\ ScenarioNames(warnings) \subseteq { ScenarioTable[found].name }
              /\ \A i \in 1..(found - 1) : ~ScenarioMatches(ScenarioTable[i], body[r])
         /\ \A a \in ScenarioNames(ExpectationWarnings(warnings)) :
              \A b \in ScenarioNames(ScenarioSkillWarnings(warnings)) : a = b

\* Both checks have warned against the second scenario of the table, the
\* first one failing the predicate
C15_Witness ==
  \E r \in Reqs :
    /\ Succeeded(r)
    /\ MatchedIndex(body[r]) = 2
    /\ ScenarioNames(ExpectationWarnings(Result(r).warnings)) = { ScenarioTable[2].name }
    /\ ScenarioNames(ScenarioSkillWarnings(Result(r).warnings)) = { ScenarioTable[2].name }

FaangSde == ScenarioTable[1]

\* C16 -- Every goal in the industry "Technology", in any letter case, is
\* matched with faang-sde whatever its role is: a "Machine Learning Engineer"
\* goal in Technology is compared with 12 months on average, never with the 18
\* months of ml-engineer.
C16_TechnologyIsFaang ==
  \A r \in Reqs :
    (Succeeded(r) /\ toLowerCase(body[r].goal.targetIndustry) = "technology") =>
      LET warnings == Result(r).warnings
          emitted == ExpectationWarnings(warnings)
      IN /\ FaangSde.id = "faang-sde"
         /\ ScenarioNames(warnings) \subseteq { FaangSde.name }
         /\ \A i \in 1..Len(emitted) :
              HasContext(emitted[i], "averageTimeline") => emitted[i].context.averageTimeline = R(12)
         /\ (10 * body[r].goal.timeline.targetMonths < 7 * 12) =>
              /\ Len(emitted) = 1
              /\ emitted[1].context.averageTimeline = R(12)

\* A machine-learning goal in Technology has been compared with 12 months
C16_Witness ==
  \E r \in Reqs :
    /\ Succeeded(r)
    /\ body[r].goal.targetRole = "Machine Learning Engineer"
    /\ body[r].goal.targetIndustry = "Technology"
    /\ Len(ExpectationWarnings(Result(r).warnings)) = 1
    /\ ExpectationWarnings(Result(r).warnings)[1].context.averageTimeline = R(12)
    /\ ExpectationWarnings(Result(r).warnings)[1].context.scenarioName = FaangSde.name

\* The check, 1 to 10 in the order of generateWarnings, a warning comes from
CheckOf(w) ==
  CASE HasContext(w, "percentageFaster") \/ HasContext(w, "percentageOver") -> 9
    [] w.flag = "timeline_unrealistic" -> 1
    [] w.flag = "insufficient_experience" -> 2
    [] w.flag = "skill_gap_detected" /\ includes(w.message, "You will need to invest") -> 3
    [] w.flag = "education_requirement_mismatch" -> 4
    [] w.flag = "career_path_unclear" -> 5
    [] w.flag = "location_constraint" -> 6
    [] w.flag = "competition_level_high" -> 7
    [] w.flag = "resource_constraint" -> 8
    [] OTHER -> 10

\* The condition of each of the first seven checks, on a request and its scores
CheckCondition(r, check) ==
  LET scores == Result(r).scoreBreakdown
      profile == body[r].profile
      goal == body[r].goal
  IN CASE check = 1 -> Lt(scores.timelineScore, R(40))
       [] check = 2 -> Lt(scores.experienceScore, R(40))
       [] check = 3 -> Lt(scores.skillScore, R(40))
       [] check = 4 -> Lt(scores.educationScore, R(40))
       [] check = 5 -> Lt(profile.experience.relevantYears, R(1)) /\ goal.targetIndustry # ""
       [] check = 6 -> /\ goal.requirements.present
                       /\ goal.requirements.targetLocation \notin { Undefined, "" }
                       /\ ~(profile.location.present /\ profile.location.isFlexible)
       [] check = 7 -> goal.requirements.present /\ goal.requirements.remoteOnly

\* C17 -- Warnings are listed in generation order: a warning of check i comes
\* before a warning of check j whenever i < j, over the ten checks; each of the
\* first seven checks gives exactly one warning when its own condition holds
\* and none otherwise, whatever the other checks do.
C17_GenerationOrder ==
  \A r \in Reqs :
    Succeeded(r) =>
      LET warnings == Result(r).warnings
      IN /\ \A i \in 1..Len(warnings) : \A j \in 1..Len(warnings) :
              CheckOf(warnings[i]) < CheckOf(warnings[j]) => i < j
         /\ \A check \in 1..7 :
              Cardinality({ i \in 1..Len(warnings) : CheckOf(warnings[i]) = check })
                = IF CheckCondition(r, check) THEN 1 ELSE 0

\* A result with a warning of the first check, of the seventh, of the time
\* check, of the expectation check and of the skill-mismatch check
C17_Witness ==
  \E r \in Reqs :
    /\ Succeeded(r)
    /\ { 1, 7, 8, 9, 10 } \subseteq
         { CheckOf(Result(r).warnings[i]) : i \in 1..Len(Result(r).warnings) }

\* C18 -- The expectation check gives at most one warning: timeline_unrealistic
\* when targetMonths < averageCaseMonths * 0.7; otherwise
\* salary_expectation_mismatch when the salary expectation and the scenario's
\* salary range are present and desired > typicalMax * 1.2; the timeline
\* warning alone when both hold; nothing without a matched scenario.
C18_AtMostOneExpectation ==
  \A r \in Reqs :
    Succeeded(r) =>
      LET found == MatchedIndex(body[r])
          emitted == ExpectationWarnings(Result(r).warnings)
          goal == body[r].goal
          tooShort == 10 * goal.timeline.targetMonths
                        < 7 * ScenarioTable[found].timelineRanges.averageCaseMonths
          tooMuch == /\ goal.salaryExpectation.present
                     /\ ScenarioTable[found].typicalSalaryRange.present
                     /\ 10 * goal.salaryExpectation.desired
                          > 12 * ScenarioTable[found].typicalSalaryRange.max
      IN /\ Len(emitted) <= 1
         /\ found = 0 => emitted = << >>
         /\ (found # 0 /\ tooShort) =>
              Len(emitted) = 1 /\ emitted[1].flag = "timeline_unrealistic"
         /\ (found # 0 /\ ~tooShort /\ tooMuch) =>
              Len(emitted) = 1 /\ emitted[1].flag = "salary_expectation_mismatch"
         /\ (found # 0 /\ ~tooShort /\ ~tooMuch) => emitted = << >>

\* Timeline too short and salary too high at once: the timeline warning alone
C18_Witness ==
  \E r \in Reqs :
    /\ Succeeded(r)
    /\ MatchedIndex(body[r]) # 0
    /\ body[r].goal.salaryExpectation.present
    /\ 10 * body[r].goal.salaryExpectation.desired
         > 12 * ScenarioTable[MatchedIndex(body[r])].typicalSalaryRange.max
    /\ Len(ExpectationWarnings(Result(r).warnings)) = 1
    /\ ExpectationWarnings(Result(r).warnings)[1].flag = "timeline_unrealistic"

\* The warnings of the skill-mismatch check, in the order returned
SkillMismatchWarnings(warnings) == SelectSeq(warnings, LAMBDA w : CheckOf(w) = 10)

\* The positions of the profile skills whose name contains or is contained in
\* the name of a requirement, letter case ignored
MatchingSkills(skills, requirement) ==
  { k \in 1..Len(skills) :
      \/ includes(toLowerCase(skills[k].name), toLowerCase(requirement.skillName))
      \/ includes(toLowerCase(requirement.skillName), toLowerCase(skills[k].name)) }

FirstOf(positions) == CHOOSE k \in positions : \A other \in positions : k <= other

\* The critical requirements of a scenario no profile skill matches
MissingCritical(skills, requirements) ==
  { i \in 1..Len(requirements) :
      requirements[i].isCritical /\ MatchingSkills(skills, requirements[i]) = {} }

\* The critical requirements whose first matching skill is two levels short
LowCritical(skills, requirements) ==
  { i \in 1..Len(requirements) :
      /\ requirements[i].isCritical
      /\ MatchingSkills(skills, requirements[i]) # {}
      /\ requirements[i].minProficiency
           - skills[FirstOf(MatchingSkills(skills, requirements[i]))].proficiency >= 2 }

\* The months to learn the requirements at the given positions
MonthsToLearn(requirements, positions) ==
  LET SumTo[i \in 0..Len(requirements)] ==
        IF i = 0 THEN 0
        ELSE SumTo[i - 1] + (IF i \in positions THEN requirements[i].monthsToLearn ELSE 0)
  IN SumTo[Len(requirements)]

\* C19 -- The skill-mismatch check gives 0, 1 or 2 warnings. Without a matched
\* scenario: one generic warning of severity 3 iff skillScore < 40. With one: a
\* warning of severity 3 iff some critical requirement has no name-matching
\* profile skill, its estimatedMonthsToLearn the sum of monthsToLearn over the
\* missing critical skills, then a warning of severity 2 iff the first matching
\* skill of some critical requirement is at least 2 levels below
\* minProficiency; non-critical requirements never count.
C19_SkillMismatch ==
  \A r \in Reqs :
    Succeeded(r) =>
      LET found == MatchedIndex(body[r])
          emitted == SkillMismatchWarnings(Result(r).warnings)
          skills == body[r].profile.skills
          requirements == ScenarioTable[found].skillRequirements
          missing == MissingCritical(skills, requirements)
          low == LowCritical(skills, requirements)
      IN /\ Len(emitted) <= 2
         /\ found = 0 =>
              IF Lt(Result(r).scoreBreakdown.skillScore, R(40))
              THEN Len(emitted) = 1 /\ emitted[1].severity = 3 /\ "context" \notin DOMAIN emitted[1]
              ELSE emitted = << >>
         /\ found # 0 =>
              /\ Len(emitted) = (IF missing = {} THEN 0 ELSE 1) + (IF low = {} THEN 0 ELSE 1)
              /\ missing # {} =>
                   /\ emitted[1].severity = 3
                   /\ HasContext(emitted[1], "missingSkills")
                   /\ Len(emitted[1].context.missingSkills) = Cardinality(missing)
                   /\ emitted[1].context.estimatedMonthsToLearn = MonthsToLearn(requirements, missing)
              /\ low # {} =>
                   /\ emitted[Len(emitted)].severity = 2
                   /\ HasContext(emitted[Len(emitted)], "lowProficiencySkills")
                   /\ Len(emitted[Len(emitted)].context.lowProficiencySkills) = Cardinality(low)

\* Two warnings: critical skills missing, and a first matching skill two
\* levels short although a later matching skill is proficient
C19_Witness ==
  \E r \in Reqs :
    /\ Succeeded(r)
    /\ MatchedIndex(body[r]) # 0
    /\ Len(SkillMismatchWarnings(Result(r).warnings)) = 2
    /\ \E i \in LowCritical(body[r].profile.skills,
                            ScenarioTable[MatchedIndex(body[r])].skillRequirements) :
         \E k \in MatchingSkills(body[r].profile.skills,
                                 ScenarioTable[MatchedIndex(body[r])].skillRequirements[i]) :
           body[r].profile.skills[k].proficiency
             >= ScenarioTable[MatchedIndex(body[r])].skillRequirements[i].minProficiency

\* The positions of the profile skills below proficiency 3
LowPositions(skills) == { i \in 1..Len(skills) : skills[i].proficiency < 3 }

\* How many low skills stand at or before a position
LowRank(skills, i) == Cardinality({ j \in LowPositions(skills) : j <= i })

TimeWarnings(warnings) == SelectSeq(warnings, LAMBDA w : w.flag = "resource_constraint")

\* Hours a day a person of the given employment status has
AvailableHours(employmentStatus) ==
  CASE employmentStatus = "employed" -> R(3)
    [] employmentStatus = "unemployed" -> R(7)
    [] employmentStatus = "student" -> R(4)
    [] OTHER -> Rat(7, 2)

\* A number of hours rounded to one decimal
OneDecimal(x) == Div(MathRound(Mul(x, R(10))), R(10))

\* C21 -- The time-availability check takes requiredHours from the average
\* band and availableHours 3 / 7 / 4 / 3.5 for employed / unemployed / student /
\* self_employed. It gives one resource_constraint warning iff requiredHours >
\* availableHours * 1.2; its severity is 3 if (employed and requiredHours > 5)
\* or requiredHours > 8, otherwise 3 if requiredHours > availableHours * 1.5
\* and 2 if not; context.hoursShortfall is requiredHours - availableHours
\* rounded to one decimal.
C21_TimeAvailability ==
  \A r \in Reqs :
    Succeeded(r) =>
      LET emitted == TimeWarnings(Result(r).warnings)
          status == body[r].profile.employmentStatus
          requiredHours == BandsOf(r).average.requiredDailyHours
          availableHours == AvailableHours(status)
      IN /\ Len(emitted) = (IF Gt(requiredHours, Mul(availableHours, Rat(6, 5))) THEN 1 ELSE 0)
         /\ emitted # << >> =>
              /\ emitted[1].context.requiredHours = requiredHours
              /\ emitted[1].context.availableHours = availableHours
              /\ emitted[1].severity =
                   (IF (status = "employed" /\ Gt(requiredHours, R(5))) \/ Gt(requiredHours, R(8))
                    THEN 3
                    ELSE IF Gt(requiredHours, Mul(availableHours, Rat(3, 2))) THEN 3 ELSE 2)
              /\ emitted[1].context.hoursShortfall = OneDecimal(Sub(requiredHours, availableHours))

\* A student short of a fractional number of hours, warned with severity 3
C21_Witness ==
  \E r \in Reqs :
    /\ Succeeded(r)
    /\ body[r].profile.employmentStatus = "student"
    /\ Len(TimeWarnings(Result(r).warnings)) = 1
    /\ TimeWarnings(Result(r).warnings)[1].severity = 3
    /\ TimeWarnings(Result(r).warnings)[1].context.hoursShortfall = Rat(5, 2)

Largest(x, y) == IF Lt(x, y) THEN y ELSE x

\* C23 -- The minimum realistic timeline of the timeline score and the base
\* timeline of the probability bands are one value: max(2, experienceGap * 12 +
\* the sum of the skill gaps' estimatedTimeToAcquireMonths + (6 if relevantYears
\* < 1 else 0)). So average.estimatedTimelineMonths = max(2, round(that value))
\* and timelineScore = 100 exactly when targetMonths >= 1.5 times it.
C23_SharedBaseTimeline ==
  \A r \in Reqs :
    (Succeeded(r) /\ body[r].goal.targetRole \in DOMAIN RoleRequiredYears) =>
      LET base == MinimumRealisticMonths(r)
          target == R(body[r].goal.timeline.targetMonths)
      IN /\ BandsOf(r).average.estimatedTimelineMonths = Largest(R(2), MathRound(base))
         /\ (Result(r).scoreBreakdown.timelineScore = R(100))
              <=> Ge(target, Mul(Rat(3, 2), base))

\* A base of 8 months, the career-change penalty not among them, and a target
\* of exactly 12: the average band takes 8 months and the score is 100
C23_Witness ==
  \E r \in Reqs :
    /\ Succeeded(r)
    /\ body[r].goal.targetRole \in DOMAIN RoleRequiredYears
    /\ MinimumRealisticMonths(r) = R(8)
    /\ body[r].goal.timeline.targetMonths = 12
    /\ BandsOf(r).average.estimatedTimelineMonths = R(8)
    /\ Result(r).scoreBreakdown.timelineScore = R(100)

\* The keyword groups of a role title and their years, first match first
RequiredYearsTable ==
  << [keywords |-> {"senior", "lead", "principal"}, years |-> 5],
     [keywords |-> {"junior", "entry", "associate"}, years |-> 1],
     [keywords |-> {"director", "manager", "head"}, years |-> 7] >>

\* The years of the first group with a keyword in the lower-cased role, else 3
RequiredYears(role) ==
  LET Hit(i) == \E keyword \in RequiredYearsTable[i].keywords :
                  includes(toLowerCase(role), keyword)
      hits == { i \in 1..Len(RequiredYearsTable) : Hit(i) }
  IN IF hits = {} THEN R(3)
     ELSE R(RequiredYearsTable[CHOOSE i \in hits : \A j \in hits : i <= j].years)

\* max(0, requiredYears - relevantYears)
ExperienceGap(required, relevantYears) == Largest(R(0), Sub(required, relevantYears))

\* The base timeline of a result for a given number of required years
BaseMonthsWith(r, required) ==
  LET relevantYears == body[r].profile.experience.relevantYears
      gaps == Result(r).skillGaps
      SumTo[i \in 0..Len(gaps)] ==
        IF i = 0 THEN R(0) ELSE Add(SumTo[i - 1], R(gaps[i].estimatedTimeToAcquireMonths))
  IN Largest(R(2), Add(Add(Mul(ExperienceGap(required, relevantYears), R(12)), SumTo[Len(gaps)]),
                       IF Lt(relevantYears, R(1)) THEN R(6) ELSE R(0)))

ScoreTimelineWarnings(warnings) == SelectSeq(warnings, LAMBDA w : CheckOf(w) = 1)

\* C25 (as claimed) -- timelineScore < 40 holds exactly when targetMonths <
\* 0.7 * minimumRealisticMonths.
C25_SeventyPercent ==
  \A r \in Reqs :
    Succeeded(r) =>
      LET base == BaseMonthsWith(r, RequiredYears(body[r].goal.targetRole))
          target == R(body[r].goal.timeline.targetMonths)
      IN Lt(Result(r).scoreBreakdown.timelineScore, R(40)) <=> Lt(target, Mul(Rat(7, 10), base))

\* C25 (amended) -- timelineScore < 40, and with it the score-based
\* timeline_unrealistic warning, holds exactly when targetMonths * 57 /
\* minimumRealisticMonths < 39.5, that is targetMonths < 79/114 of the minimum:
\* a target at or above 70% of the minimum never scores below 40, and a target
\* below 70% scores at most 40, exactly 40 from 79/114 of the minimum on.
C25_ScoreBelowForty ==
  \A r \in Reqs :
    Succeeded(r) =>
      LET base == BaseMonthsWith(r, RequiredYears(body[r].goal.targetRole))
          target == R(body[r].goal.timeline.targetMonths)
          score == Result(r).scoreBreakdown.timelineScore
      IN /\ Lt(score, R(40)) <=> Lt(target, Mul(Rat(79, 114), base))
         /\ Lt(score, R(40)) <=> ScoreTimelineWarnings(Result(r).warnings) # << >>
         /\ Ge(target, Mul(Rat(7, 10), base)) => Ge(score, R(40))
         /\ Lt(target, Mul(Rat(7, 10), base)) => Le(score, R(40))

\* A target of 39 months against a minimum of 56: below 70%, scored 40, not warned
C25_Witness ==
  \E r \in Reqs :
    /\ Succeeded(r)
    /\ BaseMonthsWith(r, RequiredYears(body[r].goal.targetRole)) = R(56)
    /\ body[r].goal.timeline.targetMonths = 39
    /\ Result(r).scoreBreakdown.timelineScore = R(40)
    /\ ScoreTimelineWarnings(Result(r).warnings) = << >>

\* C26 -- The location_constraint warning and the locationFlexibility
\* sacrifice agree: whether targetLocation is absent, empty or non-empty and
\* profile.location absent, flexible or not, the warnings contain
\* location_constraint iff locationFlexibility is true in the bands, and the
\* flag has the same value in all three bands.
C26_LocationAgreement ==
  \A r \in Reqs :
    Succeeded(r) =>
      /\ BandsOf(r).best.sacrifices.locationFlexibility
           = BandsOf(r).average.sacrifices.locationFlexibility
      /\ BandsOf(r).average.sacrifices.locationFlexibility
           = BandsOf(r).worst.sacrifices.locationFlexibility
      /\ ("location_constraint" \in Flags(Result(r).warnings))
           <=> BandsOf(r).average.sacrifices.locationFlexibility

BandNames == { "best", "average", "worst" }

\* More than 2 skill gaps, or a gap of priority 1
SignificantGaps(gaps) ==
  Len(gaps) > 2 \/ \E i \in 1..Len(gaps) : gaps[i].priority = 1

\* The sacrifices of a band with h hours a day, by the rules of the claim
SacrificeRule(r, h) ==
  LET profile == body[r].profile
      goal == body[r].goal
      employed == profile.employmentStatus = "employed"
      significant == SignificantGaps(Result(r).skillGaps)
  IN [ reduceLeisureTime |-> Gt(h, R(3)),
       reduceCurrentJobCommitment |-> employed /\ Gt(h, R(4)),
       workNonStandardHours |-> goal.timeline.targetMonths < 12 /\ Gt(h, R(4)),
       delayOtherGoals |-> Gt(h, R(5)) \/ significant,
       financialInvestment |-> significant \/ profile.education.level \in {"high_school", "none"},
       acceptLowerSalary |-> \/ Lt(profile.experience.relevantYears, R(1))
                             \/ includes(toLowerCase(goal.targetRole), "junior")
                             \/ includes(toLowerCase(goal.targetRole), "entry") ]

HoursFlags ==
  { "reduceLeisureTime", "reduceCurrentJobCommitment", "workNonStandardHours", "delayOtherGoals" }

\* C27 -- Sacrifices are evaluated per band from that band's own
\* requiredDailyHours h: reduceLeisureTime iff h > 3; reduceCurrentJobCommitment
\* iff employed and h > 4; workNonStandardHours iff targetMonths < 12 and h > 4;
\* delayOtherGoals iff h > 5 or significant gaps (more than 2 gaps or a gap of
\* priority 1); financialInvestment iff significant gaps or education
\* high_school or none; acceptLowerSalary iff relevantYears < 1 or the role
\* contains "junior" or "entry". So an hours-based flag true in the best band
\* is true in the average and worst bands as well.
C27_SacrificesPerBand ==
  \A r \in Reqs :
    Succeeded(r) =>
      /\ \A b \in BandNames :
           LET rule == SacrificeRule(r, BandsOf(r)[b].requiredDailyHours)
           IN \A flag \in DOMAIN rule : BandsOf(r)[b].sacrifices[flag] = rule[flag]
      /\ \A flag \in HoursFlags :
           /\ BandsOf(r).best.sacrifices[flag] => BandsOf(r).average.sacrifices[flag]
           /\ BandsOf(r).average.sacrifices[flag] => BandsOf(r).worst.sacrifices[flag]

\* An employed profile whose bands differ: leisure is kept in the best band
\* only, and the job commitment is reduced in the worst band only
C27_Witness ==
  \E r \in Reqs :
    /\ Succeeded(r)
    /\ body[r].profile.employmentStatus = "employed"
    /\ ~BandsOf(r).best.sacrifices.reduceLeisureTime
    /\ BandsOf(r).average.sacrifices.reduceLeisureTime
    /\ ~BandsOf(r).average.sacrifices.reduceCurrentJobCommitment
    /\ BandsOf(r).worst.sacrifices.reduceCurrentJobCommitment

\* The four strings of general advice
GeneralAdvice ==
  <<"Network actively in your target industry through LinkedIn, meetups, and events",
    "Research the job market and salary ranges for your target role",
    "Prepare a strong resume and cover letter tailored to your target role",
    "Practice interview skills, especially for technical roles">>

\* The two strings for a career change
CareerChangeAdvice ==
  <<"Conduct informational interviews with people in your target field",
    "Consider shadowing or internships to gain industry exposure">>

\* The rule a recommendation comes from: 1 experience, 2 skills, 3 education,
\* 4 timeline, 5 general advice, 6 career change
RuleOf(recommendation) ==
  CASE recommendation \in
         {"Focus on gaining relevant experience through side projects, freelancing, or volunteering",
          "Consider targeting an entry-level or junior role first to build experience"} -> 1
    [] \/ recommendation = "Build a portfolio showcasing your skills through real projects"
       \/ (Len(recommendation) >= 21 /\ SubSeq(recommendation, 1, 21) = "Prioritize learning: ") -> 2
    [] recommendation \in
         {"Consider pursuing relevant certifications or online courses",
          "Research if the role truly requires a degree, or if experience can substitute"} -> 3
    [] recommendation \in
         {"Consider extending your timeline to make the goal more achievable",
          "Break your goal into smaller milestones with intermediate targets"} -> 4
    [] recommendation \in { GeneralAdvice[i] : i \in 1..4 } -> 5
    [] recommendation \in { CareerChangeAdvice[i] : i \in 1..2 } -> 6
    [] OTHER -> 0

OfRule(recommendations, rule) ==
  SelectSeq(recommendations, LAMBDA recommendation : RuleOf(recommendation) = rule)

\* C28 -- Recommendations are appended by fixed rules in a fixed order: every
\* result has the four general-advice strings (networking, market research,
\* resume, interview practice) in that order, after all score-conditional advice
\* (experienceScore < 70, skillScore < 70, educationScore < 70 with education
\* high_school or none, timelineScore < 50, in that order) and before the two
\* career-change strings, present iff relevantYears < 1; so the list is never
\* empty and has at most 14 entries.
C28_RecommendationOrder ==
  \A r \in Reqs :
    Succeeded(r) =>
      LET recommendations == Result(r).recommendations
          scores == Result(r).scoreBreakdown
          profile == body[r].profile
      IN /\ \A i \in 1..Len(recommendations) : RuleOf(recommendations[i]) \in 1..6
         /\ \A i \in 1..Len(recommendations) : \A j \in 1..Len(recommendations) :
              RuleOf(recommendations[i]) < RuleOf(recommendations[j]) => i < j
         /\ OfRule(recommendations, 5) = GeneralAdvice
         /\ OfRule(recommendations, 6)
              = (IF Lt(profile.experience.relevantYears, R(1)) THEN CareerChangeAdvice ELSE << >>)
         /\ OfRule(recommendations, 1) # << >> <=> Lt(scores.experienceScore, R(70))
         /\ OfRule(recommendations, 2) # << >> <=> Lt(scores.skillScore, R(70))
         /\ OfRule(recommendations, 3) # << >>
              <=> (Lt(scores.educationScore, R(70)) /\ profile.education.level \in {"high_school", "none"})
         /\ OfRule(recommendations, 4) # << >> <=> Lt(scores.timelineScore, R(50))
         /\ Len(recommendations) >= 1
         /\ Len(recommendations) <= 14

\* A result with all 14 recommendations
C28_Witness ==
  \E r \in Reqs :
    /\ Succeeded(r)
    /\ Len(Result(r).recommendations) = 14
    /\ SubSeq(Result(r).recommendations, 9, 12) = GeneralAdvice
    /\ SubSeq(Result(r).recommendations, 13, 14) = CareerChangeAdvice

\* The warning of the fourth check
EducationWarnings(warnings) ==
  SelectSeq(warnings, LAMBDA w : w.flag = "education_requirement_mismatch")

EducationLevels == { "high_school", "associates", "bachelors", "masters", "doctorate", "none" }

\* C29 -- The education_requirement_mismatch warning is emitted iff
\* education.level is "none": educationScore < 40 is impossible for high_school
\* (base 40) and every higher level whatever the field bonus, and always holds
\* for "none" (at most 0 + 20).
C29_EducationWarning ==
  \A r \in Reqs :
    (Succeeded(r) /\ body[r].profile.education.level \in EducationLevels) =>
      LET level == body[r].profile.education.level
          score == Result(r).scoreBreakdown.educationScore
      IN /\ Len(EducationWarnings(Result(r).warnings)) = (IF level = "none" THEN 1 ELSE 0)
         /\ Lt(score, R(40)) <=> level = "none"
         /\ level = "none" => Le(score, R(20))

\* No education but a matching field of study: 20 points, and the warning
C29_Witness ==
  \E r \in Reqs :
    /\ Succeeded(r)
    /\ body[r].profile.education.level = "none"
    /\ Result(r).scoreBreakdown.educationScore = R(20)
    /\ Len(EducationWarnings(Result(r).warnings)) = 1

\* A step that starts a submission
Submits == form.pc # "fetching" /\ form'.pc = "fetching"

\* C30 -- The form: a submission first sets loading = true and clears error
\* and result; on every path (ok response, response that is not ok, thrown
\* network or parse error) loading eventually returns to false; result is set
\* only by an ok response and error only by a response that is not ok or a
\* thrown error, so once a submission has settled exactly one of result and
\* error is non-null; "Start Over" sets result back to null.
C30_FormSubmission ==
  /\ [][Submits => (form'.loading /\ form'.error = Null /\ form'.result = Null)]_vars
  /\ [][(form'.result # form.result /\ form'.result # Null)
          => (form.pc = "fetching" /\ resp[1].status = 200 /\ form'.result = Some(resp[1].json)
              /\ form'.outcome = "ok")]_vars
  /\ [][(form'.error # form.error /\ form'.error # Null)
          => (form.pc = "fetching" /\ form'.outcome \in {"notOk", "thrown"})]_vars
  /\ [](form.pc = "settled" =>
          /\ ~form.loading
          /\ (form.result # Null) # (form.error # Null)
          /\ (form.result # Null) <=> form.outcome = "ok")
  /\ [][(form.pc = "settled" /\ form'.pc = "idle") => (form.result # Null /\ form'.result = Null)]_vars
  /\ form.loading ~> ~form.loading

\* A submission settled with the result of the route, and nothing loading
C30_Witness ==
  /\ form.pc = "settled"
  /\ form.outcome = "ok"
  /\ ~form.loading
  /\ form.error = Null
  /\ form.result = Some(resp[1].json)
  /\ resp[1].status = 200

====
